---- MODULE Spec2Model ----
(***************************************************************************)
(* Model of the RocksDB-backed inverted index for MinHash sketches:        *)
(*   src/src/main.rs  the standalone indexer (Datasets = HashSet)          *)
(*   src/src/lib.rs   the library (Datasets = Empty | Unique | Many)       *)
(* The specifications of the module:                                       *)
(*   SpecDS     the Datasets value type of lib.rs (new / extend / union)   *)
(*   SpecDSAll  the same operations started from every value of the type   *)
(*   SpecMerge  one key of the store and its merge operator                *)
(*   Spec       index of main.rs: the workers merge by merge, the store    *)
(*              merging operands in the background                         *)
(*   SpecSearch index of either program, its workers in parallel,          *)
(*              followed by one search command                             *)
(*   SpecIds    index: the dataset id each worker hands to the back-end    *)
(*   SpecSig    one call of sig_save_to_db                                 *)
(*   SpecCompat one call of check_compatible_downsample                    *)
(*   SpecPrepare search of lib.rs up to the opening of the index           *)
(*   SpecColors Colors::update and Colors::compute_color of main.rs        *)
(*   SpecSer    as_bytes and from_slice of both Datasets types             *)
(*   SpecFrame  search and check on an index that has been built           *)
(*   SpecColorIndex  index of lib.rs with colors                           *)
(*   SpecBoth   the plain and the color index of one siglist, queried      *)
(*   SpecGather index of lib.rs, then the gather state machine             *)
(*   SpecDownsample  one call of prepare_query                             *)
(*   SpecGrow   index of main.rs, step by step, one threshold              *)
(*   SpecThreshold   index of main.rs with every value of --threshold      *)
(***************************************************************************)
EXTENDS Integers, Sequences, FiniteSets, TLC

\* ------------------------------------------------------------------ bounds
\* number of signature files in the siglist; dataset ids are 0..MaxSigs-1
MaxSigs == 2
\* hashes of a sketch are drawn from 1..MaxHash
MaxHash == 2
\* length of the slices handed to Datasets::new / extend
MaxListLen == 2
\* number of merge operands issued for one key in SpecMerge
MaxOps == 2
\* number of signatures of the query file with a sketch matching the template
MaxQuerySigs == 2
\* --threshold_bp is drawn from 0..MaxBp, the query's scaled is 1 or MaxScaled
MaxBp == 2
MaxScaled == 2
\* usize::max_value(), the start value of search's threshold (main.rs):
\* 18446744073709551615, held in its 8 bytes, least significant first, as
\* write_u64_le holds a u64
usize_MAX == [n \in 1..8 |-> 255]

DatasetIDs == 0..(MaxSigs - 1)
Hashes == 1..MaxHash

\* Option<T>: None, or Some(x) holding x
None == <<>>
Some(x) == <<x>>

\* f64: a threshold is held as the number of halves it amounts to, so that
\* 1.5 is 3; f64(n) is the whole number n, and as_u64 is the cast
\* `threshold as u64`: towards zero, negative values to 0
f64(n) == 2 * n
as_u64(x) == IF x <= 0 THEN 0 ELSE x \div 2

VARIABLES
    \* ---- SpecDS / SpecDSAll: two Datasets values and the last call made
    dsA, dsB, dsPre, dsArg, dsOp,
    \* ---- SpecMerge: one key of the store. The value the key held and the
    \* operands issued for it (mExisting, mOps); what the store holds of them
    \* now, in the format of main.rs (mBase, mPending) and of lib.rs (lBase,
    \* lPending); the last call of each merge operator (mCall, lCall)
    mExisting, mOps, mBase, mPending, mCall, lBase, lPending, lCall,
    \* ---- Spec / SpecSearch: the index command
    \* which program runs: "main" (src/src/main.rs) or "lib" (src/src/lib.rs)
    binary,
    \* the sketch selected from each signature file of the siglist, by position
    sketches,
    \* --threshold, an f64 held as its number of halves, and save_paths
    threshold, save_paths,
    \* per siglist entry: 0 not picked up yet, j >= 1 the worker is about to
    \* make its j-th store call (main.rs: the merge of the j-th hash of the
    \* sketch; plain index of lib.rs: the signature blob, then the merges),
    \* past the last call when it is done
    pc,
    \* the AtomicUsize of index
    processed_sigs,
    \* the column families: hashes (key -> value and pending merge operands)
    \* and signatures (key -> value)
    hashesCF, signaturesCF,
    \* "indexing" until index returns, then "indexed"
    phase,
    \* ---- SpecSearch: the last search command. Its arguments: the sketches of
    \* the query file that match the template (query_sig), --threshold_bp and
    \* --scaled; then its locals and how it ended (outcome)
    query_sig, threshold_bp, scaled, search_threshold, counter, candidates,
    matches, outcome,
    \* ---- per siglist entry, the value processed_sigs.fetch_add returned to
    \* the worker of the entry (the i of the log line), -1 before
    ticket,
    \* ---- the colors: the table Colors::update reads (main.rs) and the
    \* colors column family of the color index (lib.rs)
    colorsCF,
    \* ---- one call of a function: its arguments and what it returned
    args, ret

varsDS == <<dsA, dsB, dsPre, dsArg, dsOp>>
varsMerge == <<mExisting, mOps, mBase, mPending, mCall, lBase, lPending, lCall>>
varsIndex == <<binary, sketches, threshold, save_paths, pc, processed_sigs,
               hashesCF, signaturesCF, phase>>
varsSearch == <<query_sig, threshold_bp, scaled, search_threshold, counter,
                candidates, matches, outcome>>
varsExt == <<ticket, colorsCF, args, ret>>
vars == <<varsDS, varsMerge, varsIndex, varsSearch, varsExt>>

\* ------------------------------------------------------------ small helpers
Min(S) == CHOOSE x \in S : \A y \in S : x <= y
Max(S) == CHOOSE x \in S : \A y \in S : y <= x

\* ascending iteration of a BTreeSet / a sorted Vec
RECURSIVE Ascending(_)
Ascending(S) ==
    IF S = {} THEN <<>>
    ELSE LET m == Min(S) IN <<m>> \o Ascending(S \ {m})

RECURSIVE Descending(_)
Descending(S) ==
    IF S = {} THEN <<>>
    ELSE LET m == Max(S) IN <<m>> \o Descending(S \ {m})

Range(s) == {s[i] : i \in 1..Len(s)}

SeqsUpTo(S, n) == UNION {[1..k -> S] : k \in 0..n}

\* ------------------------------------------------- lib.rs: enum Datasets
Empty == [tag |-> "Empty"]
Unique(x) == [tag |-> "Unique", id |-> x]
Many(S) == [tag |-> "Many", set |-> S]

\* every value of the type over the model's ids (Many holds any BTreeSet)
AllDatasets ==
    {Empty} \cup {Unique(x) : x \in DatasetIDs} \cup {Many(S) : S \in SUBSET DatasetIDs}

\* impl IntoIterator for Datasets: the members, ascending
into_iter(d) ==
    CASE d.tag = "Empty" -> <<>>
      [] d.tag = "Unique" -> <<d.id>>
      [] d.tag = "Many" -> Ascending(d.set)

\* one turn of the loop of Extend::extend
extend_one(d, value) ==
    CASE d.tag = "Empty" -> Unique(value)
      [] d.tag = "Unique" -> IF d.id # value THEN Many({d.id, value}) ELSE d
      [] d.tag = "Many" -> Many(d.set \cup {value})

\* impl Extend<DatasetID> for Datasets
RECURSIVE extend(_, _)
extend(d, iter) ==
    IF iter = <<>> THEN d
    ELSE extend(extend_one(d, Head(iter)), Tail(iter))

\* Datasets::new
new(vals) ==
    IF Len(vals) = 0 THEN Empty
    ELSE IF Len(vals) = 1 THEN Unique(vals[1])
    ELSE Many(Range(vals))

\* faulty variants of union, which the properties of union must reject
union_keeps_self(self, other) ==
    CASE self.tag = "Empty" -> other
      [] self.tag = "Unique" ->
            (CASE other.tag = "Empty" -> self
               [] other.tag = "Unique" ->
                    IF self.id # other.id THEN Many({self.id, other.id}) ELSE self
               [] other.tag = "Many" -> Many({self.id} \cup other.set))
      [] self.tag = "Many" -> self

union_always_many(self, other) ==
    CASE self.tag = "Empty" -> other
      [] self.tag = "Unique" ->
            (CASE other.tag = "Empty" -> self
               [] other.tag = "Unique" -> Many({self.id, other.id})
               [] other.tag = "Many" -> Many({self.id} \cup other.set))
      [] self.tag = "Many" -> Many(self.set \cup Range(into_iter(other)))

\* Datasets::union: the value of *self after self.union(other)
union(self, other) ==
    CASE self.tag = "Empty" ->
            (CASE other.tag = "Empty" -> self
               [] other.tag \in {"Unique", "Many"} -> other)
      [] self.tag = "Unique" ->
            (CASE other.tag = "Empty" -> self
               [] other.tag = "Unique" ->
                    IF self.id # other.id THEN Many({self.id, other.id}) ELSE self
               [] other.tag = "Many" -> Many({self.id} \cup other.set))
      [] self.tag = "Many" -> Many(self.set \cup Range(into_iter(other)))

\* Datasets::len
len(d) ==
    CASE d.tag = "Empty" -> 0
      [] d.tag = "Unique" -> 1
      [] d.tag = "Many" -> Cardinality(d.set)

\* Datasets::contains
contains(d, value) ==
    CASE d.tag = "Empty" -> FALSE
      [] d.tag = "Unique" -> d.id = value
      [] d.tag = "Many" -> value \in d.set

\* Datasets::as_bytes (lib.rs): the rkyv archive of the enum, modelled as the
\* variant's tag followed by the payload; a BTreeSet is archived in ascending order
as_bytes(d) ==
    CASE d.tag = "Empty" -> <<0>>
      [] d.tag = "Unique" -> <<1, d.id>>
      [] d.tag = "Many" -> <<2, Cardinality(d.set)>> \o Ascending(d.set)

\* Datasets::from_slice (lib.rs)
from_slice(slice) ==
    CASE slice[1] = 0 -> Empty
      [] slice[1] = 1 -> Unique(slice[2])
      [] slice[1] = 2 -> Many({slice[i] : i \in 3..(2 + slice[2])})

\* ---------------------------------------- main.rs: struct Datasets(HashSet)
\* Datasets::new (main.rs): HashSet::from_iter
main_new(vals) == Range(vals)

\* Datasets::as_bytes (main.rs): the rkyv archive of the HashSet. rkyv puts each
\* member in the slot a fixed hash of the member selects, so the archive lists
\* the members in a fixed order that is not the ascending one; the model's slot
\* order is the descending one.
main_as_bytes(d) == Descending(d)

\* Datasets::from_slice (main.rs): deserializes the archive into a HashSet
main_from_slice(slice) == Range(slice)

\* faulty variants of merge_datasets, which the properties of the merge must reject
RECURSIVE union_operands(_, _)
union_operands(datasets, operands) ==
    IF operands = <<>> THEN datasets
    ELSE union_operands(datasets \cup main_from_slice(Head(operands)), Tail(operands))

merge_datasets_drops_existing(existing_val, operands) ==
    main_as_bytes(union_operands({}, operands))

merge_datasets_last_operand(existing_val, operands) ==
    LET original_datasets ==
            IF existing_val = None THEN {} ELSE main_from_slice(existing_val[1])
    IN  main_as_bytes(original_datasets
                      \cup main_from_slice(operands[Len(operands)]))

\* merge_datasets (main.rs): the merge operator of the standalone indexer
merge_datasets(existing_val, operands) ==
    LET original_datasets ==
            IF existing_val = None THEN {} ELSE main_from_slice(existing_val[1])
    IN  main_as_bytes(union_operands(original_datasets, operands))

\* the merge operator of the library's hashes column family (section 4.2 of
\* the specification; its code is in revindex.rs): Datasets::union folded
\* over the operands
RECURSIVE revindex_union_operands(_, _)
revindex_union_operands(datasets, operands) ==
    IF operands = <<>> THEN datasets
    ELSE revindex_union_operands(union(datasets, from_slice(Head(operands))),
                                 Tail(operands))

revindex_merge_datasets(existing_val, operands) ==
    LET original_datasets ==
            IF existing_val = None THEN Empty ELSE from_slice(existing_val[1])
    IN  as_bytes(revindex_union_operands(original_datasets, operands))

\* the merge operator each program registers for the hashes of its store
merge_operator(program, existing_val, operands) ==
    IF program = "main"
    THEN merge_datasets(existing_val, operands)
    ELSE revindex_merge_datasets(existing_val, operands)

\* ------------------------------------------------- the store, for one key
\* What a key holds: the value written last (base, None when there is none)
\* and the merge operands that arrived after it, oldest first (ops).
\* DB::get: the base merged with the pending operands, by the key's operator
StoreGet(program, cell) ==
    IF cell.ops = <<>> THEN cell.base
    ELSE Some(merge_operator(program, cell.base, cell.ops))

\* a full merge: the store folds the k oldest operands into the base
StoreFullMerge(program, cell, k) ==
    [base |-> Some(merge_operator(program, cell.base, SubSeq(cell.ops, 1, k))),
     ops |-> SubSeq(cell.ops, k + 1, Len(cell.ops))]

\* a partial merge (set_merge_operator_associative): the store replaces the
\* operands i..j by their merge, computed without an existing value
StorePartialMerge(program, cell, i, j) ==
    [base |-> cell.base,
     ops |-> SubSeq(cell.ops, 1, i - 1)
             \o <<merge_operator(program, None, SubSeq(cell.ops, i, j))>>
             \o SubSeq(cell.ops, j + 1, Len(cell.ops))]

SwapAt(s, i) ==
    [n \in 1..Len(s) |-> IF n = i THEN s[i + 1] ELSE IF n = i + 1 THEN s[i] ELSE s[n]]

\* ----------------------------------------------------- SpecMerge: one key
\* the members of a Datasets value of lib.rs
Members(d) == Range(into_iter(d))

\* the inputs in the format of main.rs and of lib.rs
MainBytes(d) == main_as_bytes(main_new(into_iter(d)))
LibBytes(d) == as_bytes(d)
MainBytesOf(s) == [n \in 1..Len(s) |-> MainBytes(s[n])]
LibBytesOf(s) == [n \in 1..Len(s) |-> LibBytes(s[n])]

IdleMerge ==
    /\ mExisting = None
    /\ mOps = <<>>
    /\ mBase = None
    /\ mPending = <<>>
    /\ mCall = None
    /\ lBase = None
    /\ lPending = <<>>
    /\ lCall = None

\* a number for each value of the type, no two values sharing one
RECURSIVE members_rank(_)
members_rank(S) ==
    IF S = {} THEN 0 ELSE LET m == Max(S) IN 2 ^ m + members_rank(S \ {m})

datasets_rank(d) ==
    CASE d.tag = "Empty" -> 0
      [] d.tag = "Unique" -> 1 + d.id
      [] d.tag = "Many" -> 1 + MaxSigs + members_rank(d.set)

\* the operands issued for the key, in one order of arrival: MergeReorder
\* gives the store the other orders
OperandLists ==
    {ops \in SeqsUpTo(AllDatasets, MaxOps) :
        \A n \in 1..(Len(ops) - 1) : datasets_rank(ops[n]) <= datasets_rank(ops[n + 1])}

InitMerge ==
    /\ mExisting \in {None} \cup {Some(d) : d \in AllDatasets}
    /\ mOps \in OperandLists
    /\ mBase = MainBytesOf(mExisting)
    /\ mPending = MainBytesOf(mOps)
    /\ mCall = None
    /\ lBase = LibBytesOf(mExisting)
    /\ lPending = LibBytesOf(mOps)
    /\ lCall = None

Call(program, existing_val, operands) ==
    Some([existing_val |-> existing_val, operands |-> operands,
          result |-> merge_operator(program, existing_val, operands)])

\* the store folds the k oldest operands of the key into its value
MergeFull ==
    \E k \in 1..Len(mPending) :
        LET m == StoreFullMerge("main", [base |-> mBase, ops |-> mPending], k)
            l == StoreFullMerge("lib",
                                [base |-> lBase, ops |-> lPending], k)
        IN  /\ mBase' = m.base
            /\ mPending' = m.ops
            /\ mCall' = Call("main", mBase, SubSeq(mPending, 1, k))
            /\ lBase' = l.base
            /\ lPending' = l.ops
            /\ lCall' = Call("lib", lBase, SubSeq(lPending, 1, k))
            /\ UNCHANGED <<mExisting, mOps>>
            /\ UNCHANGED <<varsDS, varsIndex, varsSearch, varsExt>>

\* the store merges the operands i..j of the key among themselves
MergePartial ==
    \E i \in 1..Len(mPending) : \E j \in (i + 1)..Len(mPending) :
        LET m == StorePartialMerge("main",
                                   [base |-> mBase, ops |-> mPending], i, j)
            l == StorePartialMerge("lib",
                                   [base |-> lBase, ops |-> lPending], i, j)
        IN  /\ mPending' = m.ops
            /\ mCall' = Call("main", None, SubSeq(mPending, i, j))
            /\ lPending' = l.ops
            /\ lCall' = Call("lib", None, SubSeq(lPending, i, j))
            /\ UNCHANGED <<mExisting, mOps, mBase, lBase>>
            /\ UNCHANGED <<varsDS, varsIndex, varsSearch, varsExt>>

\* two operands of the key arrive in the other order
MergeReorder ==
    \E i \in 1..(Len(mPending) - 1) :
        /\ lPending[i] # lPending[i + 1]
        /\ mPending' = SwapAt(mPending, i)
        /\ lPending' = SwapAt(lPending, i)
        /\ UNCHANGED <<mExisting, mOps, mBase, mCall, lBase, lCall>>
        /\ UNCHANGED <<varsDS, varsIndex, varsSearch, varsExt>>

IdleDS ==
    /\ dsA = Empty
    /\ dsB = Empty
    /\ dsPre = Empty
    /\ dsArg = <<>>
    /\ dsOp = "default"

\* ------------------------------------------------------ SpecDS: the calls
Lists == SeqsUpTo(DatasetIDs, MaxListLen)

\* let a = Datasets::new(&list)
DSNew ==
    \E list \in Lists :
        /\ dsPre' = dsA
        /\ dsArg' = list
        /\ dsA' = new(list)
        /\ dsOp' = "new"
        /\ dsB' = dsB
        /\ UNCHANGED <<varsMerge, varsIndex, varsSearch, varsExt>>

\* a.extend(iter)
DSExtend ==
    \E iter \in Lists :
        /\ dsPre' = dsA
        /\ dsArg' = iter
        /\ dsA' = extend(dsA, iter)
        /\ dsOp' = "extend"
        /\ dsB' = dsB
        /\ UNCHANGED <<varsMerge, varsIndex, varsSearch, varsExt>>

\* a.union(b.clone())
DSUnion ==
    /\ dsPre' = dsA
    /\ dsArg' = dsB
    /\ dsA' = union(dsA, dsB)
    /\ dsOp' = "union"
    /\ dsB' = dsB
    /\ UNCHANGED <<varsMerge, varsIndex, varsSearch, varsExt>>

\* a.union(a.clone())
DSUnionSelf ==
    /\ dsPre' = dsA
    /\ dsArg' = dsA
    /\ dsA' = union(dsA, dsA)
    /\ dsOp' = "union"
    /\ dsB' = dsB
    /\ UNCHANGED <<varsMerge, varsIndex, varsSearch, varsExt>>

\* std::mem::swap(&mut a, &mut b): the other value takes its turn
DSSwap ==
    /\ dsA # dsB
    /\ dsA' = dsB
    /\ dsB' = dsA
    /\ dsPre' = dsB
    /\ dsArg' = <<>>
    /\ dsOp' = "swap"
    /\ UNCHANGED <<varsMerge, varsIndex, varsSearch, varsExt>>


\* ------------------------------------------------------ index (main.rs)
\* write_u64::<LittleEndian>: the 8 bytes of a key, least significant first
RECURSIVE le_bytes(_, _)
le_bytes(n, k) ==
    IF k = 0 THEN <<>> ELSE <<n % 256>> \o le_bytes(n \div 256, k - 1)

write_u64_le(n) == le_bytes(n, 8)

HashKeys == {write_u64_le(h) : h \in Hashes}
SigKeys == {write_u64_le(i) : i \in DatasetIDs}

\* KmerMinHash::mins: the hashes of the sketch, ascending
mins(mh) == Ascending(mh)

\* an empty key of a column family
NoCell == [base |-> None, ops |-> <<>>]

\* DB::merge: the operand is queued behind the key's pending operands
db_merge(cf, key, operand) ==
    [cf EXCEPT ![key] = [base |-> @.base, ops |-> Append(@.ops, operand)]]

\* faulty variant: the ids are counted from 1
colors_from_one(dataset_id) == main_as_bytes(main_new(<<dataset_id + 1>>))

\* faulty variant: every worker writes the operand of dataset 0
colors_of_first(dataset_id) == main_as_bytes(main_new(<<0>>))

\* map_hashes_colors (main.rs), line 65: the operand of the dataset's merges
colors(dataset_id) == main_as_bytes(main_new(<<dataset_id>>))

\* faulty variant: the postings are written for a sketch above the threshold
writes_postings_above(matched, thr) == Len(matched) > as_u64(thr)

\* map_hashes_colors (main.rs), line 69: whether the postings are written
writes_postings(matched, thr) ==
    matched # <<>> \/ Len(matched) > as_u64(thr)

\* map_hashes_colors (main.rs), lines 72-78: one merge per hash
RECURSIVE merge_hashes(_, _, _)
merge_hashes(cf, matched, operand) ==
    IF matched = <<>> THEN cf
    ELSE merge_hashes(db_merge(cf, write_u64_le(Head(matched)), operand),
                      Tail(matched), operand)

\* the position of a worker that has finished its signature file: past the
\* merges of its hashes, which in the plain index of lib.rs follow the
\* writing of the signature blob
Done(i) == pc[i] > Cardinality(sketches[i]) + (IF binary = "lib" THEN 1 ELSE 0)

\* faulty variant: the build goes on to its last steps once one entry is done
SomeDone == \E i \in DatasetIDs : Done(i)

AllDone == \A i \in DatasetIDs : Done(i)

\* the closure of par_iter().enumerate() up to the call of map_hashes_colors:
\* a worker picks up entry i of the siglist and loads its signature
PickUp ==
    \E i \in DatasetIDs :
        /\ binary = "main"
        /\ phase = "indexing"
        /\ pc[i] = 0
        /\ processed_sigs' = processed_sigs + 1
        /\ pc' = [pc EXCEPT ![i] =
                    IF writes_postings(mins(sketches[i]), threshold)
                    THEN 1 ELSE Cardinality(sketches[i]) + 1]
        /\ UNCHANGED <<binary, sketches, threshold, save_paths, hashesCF,
                       signaturesCF, phase>>
        /\ UNCHANGED <<varsDS, varsMerge, varsSearch, varsExt>>

\* one turn of the loop of map_hashes_colors: the worker of entry i merges
\* the operand of dataset i into the next hash of its sketch
Merge ==
    \E i \in DatasetIDs :
        /\ binary = "main"
        /\ phase = "indexing"
        /\ pc[i] >= 1
        /\ ~Done(i)
        /\ hashesCF' = db_merge(hashesCF, write_u64_le(mins(sketches[i])[pc[i]]),
                                colors(i))
        /\ pc' = [pc EXCEPT ![i] = @ + 1]
        /\ UNCHANGED <<binary, sketches, threshold, save_paths, processed_sigs,
                       signaturesCF, phase>>
        /\ UNCHANGED <<varsDS, varsMerge, varsSearch, varsExt>>

\* the store, in the background: a full merge of the oldest operands of a key
BackgroundFullMerge ==
    \E key \in HashKeys : \E k \in 1..Len(hashesCF[key].ops) :
        /\ phase = "indexing"
        /\ hashesCF' = [hashesCF EXCEPT
                          ![key] = StoreFullMerge("main", @, k)]
        /\ UNCHANGED <<binary, sketches, threshold, save_paths, pc,
                       processed_sigs, signaturesCF, phase>>
        /\ UNCHANGED <<varsDS, varsMerge, varsSearch, varsExt>>

\* the store, in the background: a partial merge of some operands of a key
BackgroundPartialMerge ==
    \E key \in HashKeys :
      \E i \in 1..Len(hashesCF[key].ops) : \E j \in (i + 1)..Len(hashesCF[key].ops) :
        /\ phase = "indexing"
        /\ hashesCF' = [hashesCF EXCEPT
                          ![key] = StorePartialMerge("main", @, i, j)]
        /\ UNCHANGED <<binary, sketches, threshold, save_paths, pc,
                       processed_sigs, signaturesCF, phase>>
        /\ UNCHANGED <<varsDS, varsMerge, varsSearch, varsExt>>

\* index (main.rs) returns: count() has consumed every entry, the db is dropped
IndexReturn ==
    /\ binary = "main"
    /\ phase = "indexing"
    /\ AllDone
    /\ phase' = "indexed"
    /\ UNCHANGED <<binary, sketches, threshold, save_paths, pc, processed_sigs,
                   hashesCF, signaturesCF>>
    /\ UNCHANGED <<varsDS, varsMerge, varsSearch, varsExt>>

\* ------------------------------------------------------- index (lib.rs)
\* A siglist entry, the path on its line and the name of the signature in the
\* file are all identified with the entry's position in the siglist.
\* enum SignatureData
SignatureData_Empty == [tag |-> "Empty"]
SignatureData_Internal(sig) == [tag |-> "Internal", sig |-> sig]
SignatureData_External(path) == [tag |-> "External", path |-> path]

\* SignatureData::as_bytes: the variant's tag, then the payload
sigdata_as_bytes(d) ==
    CASE d.tag = "Empty" -> <<0>>
      [] d.tag = "Internal" ->
            <<1, d.sig.name, Cardinality(d.sig.mh)>> \o Ascending(d.sig.mh)
      [] d.tag = "External" -> <<2, d.path>>

\* SignatureData::from_slice
sigdata_from_slice(slice) ==
    CASE slice[1] = 0 -> SignatureData_Empty
      [] slice[1] = 1 ->
            SignatureData_Internal(
                [name |-> slice[2], mh |-> {slice[i] : i \in 4..(3 + slice[3])}])
      [] slice[1] = 2 -> SignatureData_External(slice[2])

\* sig_save_to_db: the signatures column family after the call
sig_save_to_db(cf, search_sig, search_mh, size, thr, paths, filename, dataset_id) ==
    LET sig == IF search_mh = {} \/ size < as_u64(thr)
               THEN SignatureData_Empty
               ELSE IF paths
               THEN SignatureData_External(filename)
               ELSE SignatureData_Internal([name |-> search_sig.name, mh |-> search_mh])
    IN  [cf EXCEPT ![write_u64_le(dataset_id)] = Some(sigdata_as_bytes(sig))]

\* DB::compact_range(None, None) (index, lib.rs line 428): the call names no
\* column family and compacts the default one, which holds no key of the
\* index; a column family of the index is after the call what it was before
compact_range(cf) == cf

\* revindex::map_hashes_colors (section 4.3 of the specification, steps 2 and
\* 3; its code is in revindex.rs), store call by store call: call 1 writes
\* the signature blob, call k + 1 merges Unique(dataset_id) into the k-th
\* hash of the sketch
revindex_store_call(cfs, idx, filename, search_mh, thr, paths, k) ==
    IF k = 1
    THEN [cfs EXCEPT !.signatures =
              sig_save_to_db(@, [name |-> filename], search_mh,
                             Cardinality(search_mh), thr, paths, filename, idx)]
    ELSE [cfs EXCEPT !.hashes =
              db_merge(@, write_u64_le(mins(search_mh)[k - 1]),
                       as_bytes(Unique(idx)))]

\* --------------------------------------------------------------- Counter
\* counter::Counter<DatasetID>: a map from the ids seen to their counts
\* Counter += id, as collect() does for each item
counter_add(c, id) ==
    IF id \in DOMAIN c
    THEN [c EXCEPT ![id] = @ + 1]
    ELSE [x \in DOMAIN c \cup {id} |-> IF x = id THEN 1 ELSE c[x]]

RECURSIVE counter_extend(_, _)
counter_extend(c, ids) ==
    IF ids = <<>> THEN c ELSE counter_extend(counter_add(c, Head(ids)), Tail(ids))

Perms(S) ==
    {p \in [1..Cardinality(S) -> S] : \A i, j \in 1..Cardinality(S) : i # j => p[i] # p[j]}

\* Counter::most_common() as search calls it: the entries by descending
\* count. The entries come out of a HashMap and the sort compares counts
\* alone, so the order among equal counts is whatever the sort leaves: every
\* order that is descending in the count is a possible result.
most_common(c) ==
    {[n \in 1..Len(p) |-> <<p[n], c[p[n]]>>] :
        p \in {q \in Perms(DOMAIN c) :
                 \A i, j \in 1..Len(q) : i < j => c[q[i]] >= c[q[j]]}}

\* ------------------------------------------------------ search (main.rs)
\* counter_for_query, lines 92-98: the keys of the query's hashes
hashes_iter(query) ==
    LET hs == mins(query) IN [n \in 1..Len(hs) |-> write_u64_le(hs[n])]

\* DB::multi_get: one DB::get per key, in the order of the keys
multi_get(program, cf, keys) ==
    [n \in 1..Len(keys) |-> StoreGet(program, cf[keys[n]])]

\* HashSet::into_iter: the items come in an order the hasher's random seed
\* decides; every order is a possible one
hashset_into_iter(d) == Perms(d)

\* faulty variant: a dataset is counted once, however many query hashes it shares
RECURSIVE collect_once(_, _)
collect_once(results, c) ==
    IF results = <<>> THEN c
    ELSE IF Head(results) = None THEN collect_once(Tail(results), c)
    ELSE collect_once(Tail(results),
            LET ids == main_from_slice(Head(results)[1])
            IN  [x \in DOMAIN c \cup ids |-> 1])

counter_for_query_once(cf, query) ==
    {collect_once(multi_get("main", cf, hashes_iter(query)), <<>>)}

\* counter_for_query (main.rs), lines 101-108: the hits, flattened into their
\* members, collected into a counter; cs holds the counters the orders of
\* the HashSets read so far can have given
RECURSIVE collect_hits(_, _)
collect_hits(results, cs) ==
    IF results = <<>> THEN cs
    ELSE IF Head(results) = None THEN collect_hits(Tail(results), cs)
    ELSE collect_hits(Tail(results),
            {counter_extend(c, items) :
                c \in cs,
                items \in hashset_into_iter(main_from_slice(Head(results)[1]))})

\* counter_for_query (main.rs): the counters the call can return
counter_for_query(cf, query) ==
    collect_hits(multi_get("main", cf, hashes_iter(query)), {<<>>})

\* revindex::counter_for_query (section 4.3 of the specification; its code is
\* in revindex.rs)
RECURSIVE revindex_collect_hits(_, _)
revindex_collect_hits(results, c) ==
    IF results = <<>> THEN c
    ELSE IF Head(results) = None THEN revindex_collect_hits(Tail(results), c)
    ELSE revindex_collect_hits(Tail(results),
            counter_extend(c, into_iter(from_slice(Head(results)[1]))))

revindex_counter_for_query(cf, query) ==
    revindex_collect_hits(
        multi_get("lib", cf, hashes_iter(query)), <<>>)

\* a < b and cmp::min(a, b), on two usize values held in their 8 bytes
usize_lt(a, b) ==
    \E k \in 1..8 : a[k] < b[k] /\ \A j \in (k + 1)..8 : a[j] = b[j]
cmp_min(a, b) == IF usize_lt(b, a) THEN b ELSE a

\* search (main.rs), lines 347-360: the threshold after the loop over the
\* signatures of the query file
\* the threshold is a usize that starts at usize::max_value(): it is held
\* in its 8 bytes, as usize_MAX is
RECURSIVE main_threshold(_, _, _, _)
main_threshold(sigs, tbp, sc, thr) ==
    IF sigs = <<>> THEN thr
    ELSE LET size == Cardinality(Head(sigs))
             t == write_u64_le(tbp \div (Max({size, 1}) * sc))
         IN  main_threshold(Tail(sigs), tbp, sc, cmp_min(thr, t))

\* search (main.rs), lines 377-384: the paths pushed until the first
\* candidate below the threshold
RECURSIVE main_matches(_, _, _)
main_matches(mc, thr, sig_files) ==
    IF mc = <<>> THEN <<>>
    ELSE IF ~usize_lt(write_u64_le(Head(mc)[2]), thr)
    THEN <<sig_files[Head(mc)[1] + 1]>> \o main_matches(Tail(mc), thr, sig_files)
    ELSE <<>>

\* whether sig_files[dataset_id as usize] is indexed out of bounds in that loop
RECURSIVE main_matches_panics(_, _, _)
main_matches_panics(mc, thr, sig_files) ==
    IF mc = <<>> THEN FALSE
    ELSE IF ~usize_lt(write_u64_le(Head(mc)[2]), thr)
    THEN Head(mc)[1] + 1 > Len(sig_files) \/ main_matches_panics(Tail(mc), thr, sig_files)
    ELSE FALSE

\* ------------------------------------------------------- search (lib.rs)
\* search (lib.rs), lines 325-338: the signature keys of the candidates that
\* reach the threshold
RECURSIVE matches_iter(_, _)
matches_iter(mc, thr) ==
    IF mc = <<>> THEN <<>>
    ELSE IF Head(mc)[2] >= thr
    THEN <<write_u64_le(Head(mc)[1])>> \o matches_iter(Tail(mc), thr)
    ELSE matches_iter(Tail(mc), thr)

\* search (lib.rs), lines 341-352: the blobs found, without the Empty ones,
\* as the path or the name they hold
RECURSIVE lib_matches(_)
lib_matches(results) ==
    IF results = <<>> THEN <<>>
    ELSE IF Head(results) = None THEN lib_matches(Tail(results))
    ELSE LET sigdata == sigdata_from_slice(Head(results)[1])
         IN  CASE sigdata.tag = "Empty" -> lib_matches(Tail(results))
               [] sigdata.tag = "External" ->
                     <<sigdata.path>> \o lib_matches(Tail(results))
               [] sigdata.tag = "Internal" ->
                     <<sigdata.sig.name>> \o lib_matches(Tail(results))

\* DB::multi_get_cf on the signatures column family
multi_get_cf(cf, keys) == [n \in 1..Len(keys) |-> cf[keys[n]]]

\* ------------------------------------------- SpecSearch: index, then search
\* the paths of the siglist, read_paths
sig_files == [n \in 1..MaxSigs |-> n - 1]

\* the closure of index (lib.rs, plain index) up to the call of
\* revindex::map_hashes_colors: a worker picks up entry i of the siglist
PickUpLib ==
    \E i \in DatasetIDs :
        /\ binary = "lib"
        /\ phase = "indexing"
        /\ pc[i] = 0
        /\ processed_sigs' = processed_sigs + 1
        /\ pc' = [pc EXCEPT ![i] = 1]
        /\ UNCHANGED <<binary, sketches, threshold, save_paths, hashesCF,
                       signaturesCF, phase>>
        /\ UNCHANGED <<varsDS, varsMerge, varsSearch, varsExt>>

\* one store call of revindex::map_hashes_colors for entry i; the calls of
\* the other workers come between the calls of this one
MapHashesColorsLib ==
    \E i \in DatasetIDs :
        /\ binary = "lib"
        /\ phase = "indexing"
        /\ pc[i] >= 1
        /\ ~Done(i)
        /\ LET cfs == revindex_store_call(
                          [hashes |-> hashesCF, signatures |-> signaturesCF],
                          i, sig_files[i + 1], sketches[i], threshold, save_paths,
                          pc[i])
           IN  /\ hashesCF' = cfs.hashes
               /\ signaturesCF' = cfs.signatures
        /\ pc' = [pc EXCEPT ![i] = @ + 1]
        /\ UNCHANGED <<binary, sketches, threshold, save_paths, processed_sigs,
                       phase>>
        /\ UNCHANGED <<varsDS, varsMerge, varsSearch, varsExt>>

\* index (lib.rs, plain index) returns, after compact_range
IndexReturnLib ==
    /\ binary = "lib"
    /\ phase = "indexing"
    /\ AllDone
    /\ hashesCF' = compact_range(hashesCF)
    /\ phase' = "indexed"
    /\ UNCHANGED <<binary, sketches, threshold, save_paths, pc, processed_sigs,
                   signaturesCF>>
    /\ UNCHANGED <<varsDS, varsMerge, varsSearch, varsExt>>

\* the query file, as the sketches of its signatures that match the template:
\* none, or a sketch q that comes last, alone or behind MaxQuerySigs - 1
\* signatures holding the largest sketch
QueryFiles ==
    {<<>>} \cup {[n \in 1..k |-> IF n = k THEN q ELSE Hashes] :
                    k \in {1, MaxQuerySigs}, q \in SUBSET Hashes}

\* the values of --threshold_bp (none, the smallest, the largest) and of the
\* scaled of the query's sketch
ThresholdsBp == {0, 1, MaxBp}
Scaleds == {1, MaxScaled}

\* DB::open_for_read_only(&opts, path, true) (main.rs, lines 317 and 370):
\* the third argument is error_if_log_file_exist, and index drops the store
\* without flushing it; whether the store has left a log file behind, and
\* the opening returns Err, is the store's doing
open_for_read_only_outcomes == {"Ok", "Err"}

\* search (main.rs), on the index built from the same siglist
SearchMain ==
    /\ binary = "main"
    /\ phase = "indexed"
    /\ outcome = "none"
    /\ \E q \in QueryFiles : \E tbp \in ThresholdsBp : \E sc \in Scaleds :
        /\ query_sig' = q
        /\ threshold_bp' = tbp
        /\ scaled' = sc
        /\ search_threshold' = main_threshold(q, tbp, sc, usize_MAX)
        /\ IF q = <<>>
           THEN \* query.unwrap() panics
                /\ counter' = <<>>
                /\ candidates' = <<>>
                /\ matches' = <<>>
                /\ outcome' = "panic"
           ELSE \/ \* DB::open_for_read_only returns Err
                   /\ "Err" \in open_for_read_only_outcomes
                   /\ counter' = <<>>
                   /\ candidates' = <<>>
                   /\ matches' = <<>>
                   /\ outcome' = "Err"
                \/ /\ counter' \in counter_for_query(hashesCF, q[Len(q)])
                   /\ candidates' \in most_common(counter')
                   /\ IF main_matches_panics(candidates', search_threshold', sig_files)
                      THEN matches' = <<>> /\ outcome' = "panic"
                      ELSE /\ matches' = main_matches(candidates', search_threshold', sig_files)
                           /\ outcome' = "ok"
        /\ UNCHANGED <<varsDS, varsMerge, varsIndex, varsExt>>

\* search (lib.rs, plain index)
SearchLib ==
    /\ binary = "lib"
    /\ phase = "indexed"
    /\ outcome = "none"
    /\ \E q \in QueryFiles : \E tbp \in ThresholdsBp : \E sc \in Scaleds :
        /\ query_sig' = q
        /\ threshold_bp' = tbp
        /\ scaled' = sc
        /\ IF q = <<>>
           THEN \* query.expect("Couldn't find a compatible MinHash") panics
                /\ search_threshold' = 0
                /\ counter' = <<>>
                /\ candidates' = <<>>
                /\ matches' = <<>>
                /\ outcome' = "panic"
           ELSE /\ search_threshold' = tbp \div sc
                /\ counter' = revindex_counter_for_query(hashesCF, q[Len(q)])
                /\ candidates' \in most_common(counter')
                /\ matches' = lib_matches(multi_get_cf(signaturesCF,
                                  matches_iter(candidates', search_threshold')))
                /\ outcome' = "ok"
        /\ UNCHANGED <<varsDS, varsMerge, varsIndex, varsExt>>

\* ------------------------------------------- SpecIds: the ids of the build
\* faulty variant: the id is the number the worker drew from processed_sigs
dataset_id_ticket(position, i) == i

\* index, the closure's arguments: enumerate() pairs every entry of the
\* siglist with its position, whatever worker runs the closure and whatever
\* i the worker draws from processed_sigs
dataset_id(position, i) == position

\* the closure of index up to the call of the back-end: the worker of an
\* entry draws i
PickUpTicket ==
    \E p \in DatasetIDs :
        /\ phase = "indexing"
        /\ ticket[p] = -1
        /\ ticket' = [ticket EXCEPT ![p] = processed_sigs]
        /\ processed_sigs' = processed_sigs + 1
        /\ pc' = [pc EXCEPT ![p] =
                    IF binary = "lib" \/ writes_postings(mins(sketches[p]), threshold)
                    THEN 1 ELSE Cardinality(sketches[p]) + 1]
        /\ UNCHANGED <<binary, sketches, threshold, save_paths, hashesCF,
                       signaturesCF, phase, colorsCF, args, ret>>
        /\ UNCHANGED <<varsDS, varsMerge, varsSearch>>

\* the rest of the closure of index (main.rs), the call of map_hashes_colors:
\* one turn of its loop, a merge of the operand of the id it was handed
CallMapHashesColors ==
    \E p \in DatasetIDs :
        /\ binary = "main"
        /\ phase = "indexing"
        /\ ticket[p] >= 0
        /\ pc[p] >= 1
        /\ ~Done(p)
        /\ hashesCF' = db_merge(hashesCF, write_u64_le(mins(sketches[p])[pc[p]]),
                                colors(dataset_id(p, ticket[p])))
        /\ pc' = [pc EXCEPT ![p] = @ + 1]
        /\ UNCHANGED <<binary, sketches, threshold, save_paths, processed_sigs,
                       signaturesCF, phase>>
        /\ UNCHANGED <<varsDS, varsMerge, varsSearch, varsExt>>

\* the rest of the closure of index (lib.rs, plain index), the call of
\* revindex::map_hashes_colors: one of its store calls
CallRevindexMapHashesColors ==
    \E p \in DatasetIDs :
        /\ binary = "lib"
        /\ phase = "indexing"
        /\ ticket[p] >= 0
        /\ pc[p] >= 1
        /\ ~Done(p)
        /\ LET cfs == revindex_store_call(
                          [hashes |-> hashesCF, signatures |-> signaturesCF],
                          dataset_id(p, ticket[p]), sig_files[p + 1],
                          sketches[p], threshold, save_paths, pc[p])
           IN  /\ hashesCF' = cfs.hashes
               /\ signaturesCF' = cfs.signatures
        /\ pc' = [pc EXCEPT ![p] = @ + 1]
        /\ UNCHANGED <<binary, sketches, threshold, save_paths, processed_sigs,
                       phase>>
        /\ UNCHANGED <<varsDS, varsMerge, varsSearch, varsExt>>

\* ------------------------------------------ SpecSig: one sig_save_to_db
\* one call of sig_save_to_db, as revindex::map_hashes_colors makes it (the
\* size is the number of hashes of the sketch), on a signatures column family
\* that may hold blobs already
SigSaveToDb ==
    /\ ret = "none"
    /\ signaturesCF' = sig_save_to_db(signaturesCF, [name |-> args.filename],
                           args.search_mh, Cardinality(args.search_mh),
                           args.threshold, args.save_paths, args.filename,
                           args.dataset_id)
    /\ ret' = "returned"
    /\ UNCHANGED <<binary, sketches, threshold, save_paths, pc, processed_sigs,
                   hashesCF, phase, ticket, colorsCF, args>>
    /\ UNCHANGED <<varsDS, varsMerge, varsSearch>>

\* --------------------------------------------- query preparation (lib.rs)
\* A sketch (KmerMinHash) is its parameters and its hashes; a signature is the
\* sequence of its sketches.
KSizes == {21, 31}
HashFunctions == {"dna", "protein"}
Seeds == {42, 43}
\* the largest value of a hash, where the code has u64::max_value(): the
\* hash space of the model ends one above the largest hash of the indexes
HashSpaceMax == MaxHash + 1
MaxHashes == 0..HashSpaceMax

\* the hashes a sketch of the given max_hash keeps
below_max_hash(hashes, max_hash) == {h \in hashes : h <= max_hash}

\* the sketches of the model: every hash up to max_hash is in the sketch
KmerMinHashes ==
    {[ksize |-> k, hash_function |-> hf, max_hash |-> m, seed |-> sd,
      mins |-> below_max_hash(Hashes, m)] :
        k \in KSizes, hf \in HashFunctions, m \in MaxHashes, sd \in Seeds}

\* faulty variant: the seed is compared before max_hash
check_compatible_downsample_seed_first(me, other) ==
    IF me.ksize # other.ksize THEN "MismatchKSizes"
    ELSE IF me.hash_function # other.hash_function THEN "MismatchDNAProt"
    ELSE IF me.seed # other.seed THEN "MismatchSeed"
    ELSE IF me.max_hash < other.max_hash THEN "MismatchScaled"
    ELSE "Ok"

\* check_compatible_downsample: "Ok" for Ok(()), else the name of the error
check_compatible_downsample(me, other) ==
    IF me.ksize # other.ksize THEN "MismatchKSizes"
    ELSE IF me.hash_function # other.hash_function THEN "MismatchDNAProt"
    ELSE IF me.max_hash < other.max_hash THEN "MismatchScaled"
    ELSE IF me.seed # other.seed THEN "MismatchSeed"
    ELSE "Ok"

\* Signature::select_sketch, as prepare_query calls it: the first sketch of
\* the signature with the parameters of the template
RECURSIVE select_sketch(_, _)
select_sketch(sketches_of_sig, template) ==
    IF sketches_of_sig = <<>> THEN None
    ELSE LET mh == Head(sketches_of_sig)
         IN  IF /\ mh.ksize = template.ksize
                /\ mh.hash_function = template.hash_function
                /\ mh.max_hash = template.max_hash
                /\ mh.seed = template.seed
             THEN Some(mh)
             ELSE select_sketch(Tail(sketches_of_sig), template)

\* KmerMinHash::scaled and max_hash_for_scaled, the conversions of the sketch
\* library between max_hash and scaled (Glossary: max_hash = 2^64 / scaled):
\* each is the quotient of the largest hash and its argument cut to an
\* integer, so that a max_hash that is no such quotient does not come back
\* from its scaled
scaled_of(mh) == IF mh.max_hash = 0 THEN 0 ELSE HashSpaceMax \div mh.max_hash
max_hash_for_scaled(sc) ==
    IF sc = 0 THEN 0 ELSE IF sc = 1 THEN HashSpaceMax ELSE HashSpaceMax \div sc

\* KmerMinHash::downsample_max_hash
downsample_max_hash(mh, max_hash) ==
    [mh EXCEPT !.max_hash = max_hash, !.mins = below_max_hash(@, max_hash)]

\* prepare_query, lines 143-151: the loop over the sketches of the signature
RECURSIVE find_downsample(_, _, _)
find_downsample(sketches_of_sig, template_mh, search_mh) ==
    IF sketches_of_sig = <<>> THEN search_mh
    ELSE LET ref_mh == Head(sketches_of_sig)
         IN  find_downsample(Tail(sketches_of_sig), template_mh,
                 IF check_compatible_downsample(ref_mh, template_mh) = "Ok"
                 THEN Some(downsample_max_hash(ref_mh,
                               max_hash_for_scaled(scaled_of(template_mh))))
                 ELSE search_mh)

\* faulty variant: a sketch is taken whether or not it can be downsampled
prepare_query_unchecked(search_sig, template) ==
    IF search_sig = <<>> THEN None ELSE Some(search_sig[Len(search_sig)])

\* prepare_query
prepare_query(search_sig, template) ==
    IF select_sketch(search_sig, template) # None
    THEN select_sketch(search_sig, template)
    ELSE find_downsample(search_sig, template, None)

\* search (lib.rs), lines 302-307: the query after the loop over the
\* signatures of the query file
RECURSIVE last_prepared(_, _, _)
last_prepared(sigs, template, query) ==
    IF sigs = <<>> THEN query
    ELSE last_prepared(Tail(sigs), template,
             IF prepare_query(Head(sigs), template) # None
             THEN prepare_query(Head(sigs), template)
             ELSE query)

\* ------------------------------- SpecCompat: check_compatible_downsample
CheckCompatibleDownsample ==
    /\ ret = "none"
    /\ ret' = check_compatible_downsample(args.me, args.other)
    /\ UNCHANGED <<ticket, colorsCF, args>>
    /\ UNCHANGED <<varsDS, varsMerge, varsIndex, varsSearch>>

\* ------------------------ SpecPrepare: search (lib.rs) up to open_db
\* search, lines 300-312: the query is prepared, and the index is opened only
\* if there is one (expect() panics otherwise) and its scaled value can
\* divide threshold_bp
SearchPrepare ==
    /\ ret.outcome = "none"
    /\ LET query == last_prepared(args.query_sig, args.template, None)
       IN  ret' = IF query = None
                  THEN [outcome |-> "panic",
                        message |-> "Couldn't find a compatible MinHash",
                        query |-> None, opened |-> FALSE]
                  ELSE IF scaled_of(query[1]) = 0
                  THEN [outcome |-> "panic",
                        message |-> "attempt to divide by zero",
                        query |-> query, opened |-> FALSE]
                  ELSE [outcome |-> "proceeds", message |-> "",
                        query |-> query, opened |-> TRUE]
    /\ UNCHANGED <<ticket, colorsCF, args>>
    /\ UNCHANGED <<varsDS, varsMerge, varsIndex, varsSearch>>

\* --------------------------------------------------- Colors (main.rs)
\* the digest of a list of ids: it depends on the order of the list, and no
\* two lists of the model's ids have the same digest
RECURSIVE xxh3(_)
xxh3(list) ==
    IF list = <<>> THEN 0 ELSE (Head(list) + 1) + (MaxSigs + 1) * xxh3(Tail(list))

\* sorted.sort(), on the members a HashSet iterates (no member twice)
sort(list) == Ascending(Range(list))

\* faulty variant: the digest is taken over the members as the set iterates
compute_color_unsorted(iter) == xxh3(iter)

\* Colors::compute_color; iter is idxs.0.iter(), the members of the HashSet
\* in the order it iterates them
compute_color(iter) == xxh3(sort(iter))

ColorValues == {compute_color(Ascending(S)) : S \in SUBSET DatasetIDs}
ColorKeys == {write_u64_le(c) : c \in ColorValues}

\* Colors::update, lines 157-161: the new ids the stored set does not hold
idx_to_add(idxs, new_idxs) == SelectSeq(new_idxs, LAMBDA new_idx : new_idx \notin idxs)

\* Colors::update, lines 165-166 and 176-177: the HashSet whose color is
\* computed
update_idxs(db, current_color, new_idxs) ==
    IF current_color # None
    THEN IF db[write_u64_le(current_color[1])] # None
         THEN main_from_slice(db[write_u64_le(current_color[1])][1])
                  \cup Range(idx_to_add(main_from_slice(db[write_u64_le(current_color[1])][1]),
                                        new_idxs))
         ELSE {}
    ELSE Range(new_idxs)

\* Colors::update; iter is the order in which update_idxs iterates. The
\* result is Ok(color) or the panic of unimplemented!(); db is only read.
Colors_update(db, current_color, new_idxs, iter) ==
    IF current_color # None
    THEN IF db[write_u64_le(current_color[1])] # None
         THEN IF idx_to_add(main_from_slice(db[write_u64_le(current_color[1])][1]),
                            new_idxs) = <<>>
              THEN [outcome |-> "Ok", color |-> current_color]
              ELSE [outcome |-> "Ok", color |-> Some(compute_color(iter))]
         ELSE [outcome |-> "unimplemented", color |-> None]
    ELSE [outcome |-> "Ok", color |-> Some(compute_color(iter))]

\* ----------------------------------------------- SpecColors: Colors
\* Colors::update(db, current_color, new_idxs)
ColorsUpdate ==
    /\ ret.outcome = "none"
    /\ args.call = "update"
    /\ \E iter \in Perms(update_idxs(colorsCF, args.current_color, args.new_idxs)) :
          ret' = Colors_update(colorsCF, args.current_color, args.new_idxs, iter)
    /\ UNCHANGED <<ticket, colorsCF, args>>
    /\ UNCHANGED <<varsDS, varsMerge, varsIndex, varsSearch>>

\* Colors::compute_color(&Datasets::new(a)) and
\* Colors::compute_color(&Datasets::new(b)): each HashSet iterates its members
\* in an order of its own
ComputeColor ==
    /\ ret.outcome = "none"
    /\ args.call = "compute_color"
    /\ \E iter_a \in Perms(main_new(args.a)), iter_b \in Perms(main_new(args.b)) :
          ret' = [outcome |-> "Ok", iter_a |-> iter_a, iter_b |-> iter_b,
                  a |-> compute_color(iter_a), b |-> compute_color(iter_b)]
    /\ UNCHANGED <<ticket, colorsCF, args>>
    /\ UNCHANGED <<varsDS, varsMerge, varsIndex, varsSearch>>

\* ------------------------------------- SpecSer: as_bytes and from_slice
\* the ways a Datasets value is built from a list of ids: Datasets::new, an
\* empty value extended by the list, and (lib.rs) the variant Many itself
build_datasets(program, build, list) ==
    IF program = "main" THEN main_new(list)
    ELSE CASE build = "new" -> new(list)
           [] build = "extend" -> extend(Empty, list)
           [] build = "Many" -> Many(Range(list))

datasets_as_bytes(program, d) ==
    IF program = "main" THEN main_as_bytes(d) ELSE as_bytes(d)

datasets_from_slice(program, slice) ==
    IF program = "main" THEN main_from_slice(slice) ELSE from_slice(slice)

\* two values are built, serialized with as_bytes and read back with
\* from_slice
Serialize ==
    /\ ret.outcome = "none"
    /\ LET a == build_datasets(args.program, args.build, args.a)
           b == build_datasets(args.program, args.build, args.b)
       IN  ret' = [outcome |-> "done", a |-> a, b |-> b,
                   bytes_a |-> datasets_as_bytes(args.program, a),
                   bytes_b |-> datasets_as_bytes(args.program, b),
                   back_a |-> datasets_from_slice(args.program,
                                  datasets_as_bytes(args.program, a)),
                   back_b |-> datasets_from_slice(args.program,
                                  datasets_as_bytes(args.program, b))]
    /\ UNCHANGED <<ticket, colorsCF, args>>
    /\ UNCHANGED <<varsDS, varsMerge, varsIndex, varsSearch>>

\* ------------------------------------- SpecFrame: search and check
\* faulty variant: the store is opened for writing, and opening it folds the
\* pending operands of every key into its value
open_read_write(program, cf) ==
    [key \in DOMAIN cf |->
        IF cf[key].ops = <<>> THEN cf[key]
        ELSE StoreFullMerge(program, cf[key], Len(cf[key].ops))]

\* DB::open_for_read_only (main.rs, check) and
\* DB::open_cf_descriptors_read_only (open_db with read_only): the column
\* family as the opening and the closing of the store leave it
open_read_only(program, cf) == cf

\* check, "total keys": the keys the iterator of a column family yields
total_keys(program, cf) ==
    Cardinality({key \in DOMAIN cf : StoreGet(program, cf[key]) # None})

\* check (main.rs): the store is opened read-only and, unless the opening
\* fails, every key and value is read
CheckMain ==
    /\ binary = "main"
    /\ phase = "indexed"
    /\ ret.outcome = "none"
    /\ hashesCF' = open_read_only("main", hashesCF)
    /\ \E opened \in open_for_read_only_outcomes :
          ret' = IF opened = "Err"
                 THEN [outcome |-> "Err", hashes |-> 0, colors |-> 0,
                       signatures |-> 0]
                 ELSE [outcome |-> "ok", hashes |-> total_keys("main", hashesCF),
                       colors |-> 0, signatures |-> 0]
    /\ UNCHANGED <<binary, sketches, threshold, save_paths, pc, processed_sigs,
                   signaturesCF, phase, ticket, colorsCF, args>>
    /\ UNCHANGED <<varsDS, varsMerge, varsSearch>>

\* check (lib.rs): open_db(output, true, colors), then the statistics of
\* hashes, of colors when colors is set, and of signatures. On an index
\* without the colors column family, colors makes the opening panic. On a
\* color index checked in depth without colors, Datasets::from_slice (an
\* unchecked archived_root) is applied to the 8-byte colors that hashes
\* holds: the call may panic or go on with whatever it decoded.
CheckLib ==
    /\ binary \in {"lib", "lib_colors"}
    /\ phase = "indexed"
    /\ ret.outcome = "none"
    /\ \E quick \in BOOLEAN, with_colors \in BOOLEAN :
        /\ IF with_colors /\ binary = "lib"
           THEN /\ ret' = [outcome |-> "panic", hashes |-> 0, colors |-> 0,
                           signatures |-> 0]
                /\ UNCHANGED <<hashesCF, colorsCF>>
           ELSE /\ hashesCF' = open_read_only("lib", hashesCF)
                /\ colorsCF' = IF binary = "lib_colors"
                               THEN open_read_only("lib", colorsCF)
                               ELSE colorsCF
                /\ \E decoded \in
                        (IF /\ binary = "lib_colors" /\ ~with_colors /\ ~quick
                            /\ total_keys("lib", hashesCF) > 0
                         THEN {"Ok", "panic"} ELSE {"Ok"}) :
                      ret' = IF decoded = "panic"
                             THEN [outcome |-> "panic", hashes |-> 0,
                                   colors |-> 0, signatures |-> 0]
                             ELSE [outcome |-> "ok",
                                   hashes |-> total_keys("lib", hashesCF),
                                   colors |-> IF with_colors
                                              THEN total_keys("lib", colorsCF)
                                              ELSE 0,
                                   signatures |->
                                       Cardinality({key \in DOMAIN signaturesCF :
                                                       signaturesCF[key] # None})]
    /\ UNCHANGED <<binary, sketches, threshold, save_paths, pc, processed_sigs,
                   signaturesCF, phase, ticket, args>>
    /\ UNCHANGED <<varsDS, varsMerge, varsSearch>>

\* ------------------------------------- SpecColorIndex: index with colors
\* The color back-end, sections 4.4 and 4.5 of the specification; its code is
\* in color_revindex.rs.
\* H, the color of a DatasetSet: the digest of its members, ascending
color_revindex_compute_color(d) == xxh3(into_iter(d))

\* color_revindex::map_hashes_colors: the signature blob is written, the color
\* of the dataset alone is merge-inserted into colors, and hashes accumulates
\* the postings as raw DatasetSets, one merge of Unique(idx) per hash
color_revindex_map_hashes_colors(cfs, idx, filename, search_mh, thr, paths) ==
    [signatures |->
        sig_save_to_db(cfs.signatures, [name |-> filename], search_mh,
                       Cardinality(search_mh), thr, paths, filename, idx),
     colors |->
        IF search_mh = {} THEN cfs.colors
        ELSE db_merge(cfs.colors,
                      write_u64_le(color_revindex_compute_color(Unique(idx))),
                      as_bytes(Unique(idx))),
     hashes |-> merge_hashes(cfs.hashes, mins(search_mh), as_bytes(Unique(idx)))]

\* the raw DatasetSet a key of hashes holds before the compaction pass
raw_datasets(cell) == from_slice(StoreGet("lib", cell)[1])

\* Colors::compress, the compaction pass of section 4.5: for every entry of
\* hashes, the color of its raw DatasetSet is computed, colors gets the
\* DatasetSet under that color if the color is absent, and the entry is
\* overwritten with the color
Colors_compress(cfs) ==
    LET entries == {key \in DOMAIN cfs.hashes : StoreGet("lib", cfs.hashes[key]) # None}
        color_key(key) ==
            write_u64_le(color_revindex_compute_color(raw_datasets(cfs.hashes[key])))
    IN  [hashes |->
            [key \in DOMAIN cfs.hashes |->
                IF key \in entries
                THEN [base |-> Some(color_key(key)), ops |-> <<>>]
                ELSE cfs.hashes[key]],
         colors |->
            [ck \in DOMAIN cfs.colors |->
                IF /\ StoreGet("lib", cfs.colors[ck]) = None
                   /\ \E key \in entries : color_key(key) = ck
                THEN [base |-> Some(as_bytes(raw_datasets(
                                  cfs.hashes[CHOOSE key \in entries : color_key(key) = ck]))),
                      ops |-> <<>>]
                ELSE cfs.colors[ck]]]

\* index with colors, lines 375-394: the siglist is walked in order by one
\* thread, so an entry is indexed after the entries before it
IndexSignatureColors ==
    \E i \in DatasetIDs :
        /\ binary = "lib_colors"
        /\ phase = "indexing"
        /\ pc[i] = 0
        /\ \A j \in DatasetIDs : j < i => Done(j)
        /\ processed_sigs' = processed_sigs + 1
        /\ LET cfs == color_revindex_map_hashes_colors(
                          [hashes |-> hashesCF, signatures |-> signaturesCF,
                           colors |-> colorsCF],
                          i, sig_files[i + 1], sketches[i], threshold, save_paths)
           IN  /\ hashesCF' = cfs.hashes
               /\ signaturesCF' = cfs.signatures
               /\ colorsCF' = cfs.colors
        /\ pc' = [pc EXCEPT ![i] = Cardinality(sketches[i]) + 1]
        /\ UNCHANGED <<binary, sketches, threshold, save_paths, phase, ticket, args, ret>>
        /\ UNCHANGED <<varsDS, varsMerge, varsSearch>>

\* index with colors, lines 418-430: after the loop, Colors::compress, then
\* compact_range, then index returns
IndexReturnColors ==
    /\ binary = "lib_colors"
    /\ phase = "indexing"
    /\ AllDone
    /\ LET cfs == Colors_compress([hashes |-> hashesCF, colors |-> colorsCF])
       IN  /\ hashesCF' = compact_range(cfs.hashes)
           /\ colorsCF' = compact_range(cfs.colors)
    /\ phase' = "indexed"
    /\ UNCHANGED <<binary, sketches, threshold, save_paths, pc, processed_sigs,
                   signaturesCF, ticket, args, ret>>
    /\ UNCHANGED <<varsDS, varsMerge, varsSearch>>

\* -------------------------- SpecBoth: a plain and a color index, one input
\* color_revindex::counter_for_query (section 4.4 of the specification, Query;
\* its code is in color_revindex.rs): for each hash of the query the color is
\* fetched, then the DatasetSet of the color, and the members are counted
RECURSIVE color_revindex_collect_hits(_, _, _)
color_revindex_collect_hits(colors_cf, results, c) ==
    IF results = <<>> THEN c
    ELSE IF Head(results) = None
    THEN color_revindex_collect_hits(colors_cf, Tail(results), c)
    ELSE color_revindex_collect_hits(colors_cf, Tail(results),
            LET found == StoreGet("lib", colors_cf[Head(results)[1]])
            IN  IF found = None THEN c
                ELSE counter_extend(c, into_iter(from_slice(found[1]))))

color_revindex_counter_for_query(cfs, query) ==
    color_revindex_collect_hits(cfs.colors,
        multi_get("lib", cfs.hashes, hashes_iter(query)), <<>>)

\* index without colors, lines 395-414, run on a second directory (held in
\* args) once the color index is built: one store call of a worker's
\* revindex::map_hashes_colors, the entries of the same siglist in parallel
PlainIndexSignature ==
    \E i \in DatasetIDs :
        /\ binary = "lib_colors"
        /\ phase = "indexed"
        /\ args.phase = "indexing"
        /\ args.pc[i] <= Cardinality(sketches[i])
        /\ LET cfs == revindex_store_call(
                          [hashes |-> args.hashes, signatures |-> args.signatures],
                          i, sig_files[i + 1], sketches[i], threshold, save_paths,
                          args.pc[i] + 1)
           IN  args' = [args EXCEPT !.hashes = cfs.hashes,
                                    !.signatures = cfs.signatures,
                                    !.pc[i] = @ + 1]
        /\ UNCHANGED <<binary, sketches, threshold, save_paths, pc, processed_sigs,
                       hashesCF, signaturesCF, phase, ticket, colorsCF, ret>>
        /\ UNCHANGED <<varsDS, varsMerge, varsSearch>>

\* index without colors returns, after compact_range
PlainIndexReturn ==
    /\ binary = "lib_colors"
    /\ args.phase = "indexing"
    /\ \A i \in DatasetIDs : args.pc[i] > Cardinality(sketches[i])
    /\ args' = [args EXCEPT !.hashes = compact_range(@), !.phase = "indexed"]
    /\ UNCHANGED <<binary, sketches, threshold, save_paths, pc, processed_sigs,
                   hashesCF, signaturesCF, phase, ticket, colorsCF, ret>>
    /\ UNCHANGED <<varsDS, varsMerge, varsSearch>>

\* search, lines 316-320, on each of the two indexes with the same query
CounterForQueryBoth ==
    /\ binary = "lib_colors"
    /\ phase = "indexed"
    /\ args.phase = "indexed"
    /\ ret.outcome = "none"
    /\ \E query \in SUBSET Hashes :
          ret' = [outcome |-> "ok", query |-> query,
                  plain |-> revindex_counter_for_query(args.hashes, query),
                  color |-> color_revindex_counter_for_query(
                                [hashes |-> hashesCF, colors |-> colorsCF], query)]
    /\ UNCHANGED <<binary, sketches, threshold, save_paths, pc, processed_sigs,
                   hashesCF, signaturesCF, phase, ticket, colorsCF, args>>
    /\ UNCHANGED <<varsDS, varsMerge, varsSearch>>

\* ------------------------------------------------- SpecGather: gather
\* The GatherEngine, section 4.8 of the specification; the repository's
\* sources at hand hold no code of it.
\* step 2, Select: the highest count, ties broken by the smallest id
gather_select(c) ==
    CHOOSE i \in DOMAIN c :
        \A j \in DOMAIN c : c[j] < c[i] \/ (c[j] = c[i] /\ i <= j)

\* step 3, Fetch: the hashes of the stored sketch; an Empty blob is a match
\* of no hashes
gather_fetch(signatures_cf, id) ==
    LET blob == signatures_cf[write_u64_le(id)]
    IN  IF blob = None THEN {}
        ELSE LET sigdata == sigdata_from_slice(blob[1])
             IN  IF sigdata.tag = "Internal" THEN sigdata.sig.mh ELSE {}

\* whether the blob of the dataset is Empty
gather_is_empty(signatures_cf, id) ==
    LET blob == signatures_cf[write_u64_le(id)]
    IN  blob = None \/ sigdata_from_slice(blob[1]).tag = "Empty"

\* step 6, Peel
gather_peel(residual, candidate) == residual \ candidate

\* the number of iterations the model follows a gather for
MaxIterations == MaxHash + 2

\* the values of the gather threshold: none, the smallest, the largest
GatherThresholds == {0, 1, MaxHash}

\* gather is called, with any query and threshold, on the plain index that
\* index of lib.rs has returned from
GatherStart ==
    /\ binary = "lib"
    /\ phase = "indexed"
    /\ ret.outcome = "none"
    /\ \E query \in SUBSET Hashes, thr \in GatherThresholds :
          args' = [query |-> query, threshold |-> thr, residual |-> query,
                   iterations |-> 0]
    /\ ret' = [ret EXCEPT !.outcome = "running"]
    /\ UNCHANGED <<ticket, colorsCF>>
    /\ UNCHANGED <<varsDS, varsMerge, varsIndex, varsSearch>>

\* one iteration of the state machine, steps 1 to 6
GatherIterate ==
    /\ ret.outcome = "running"
    /\ args.iterations < MaxIterations
    /\ LET c == revindex_counter_for_query(hashesCF, args.residual)
       IN  IF DOMAIN c = {} \/ c[gather_select(c)] < args.threshold
           THEN \* step 1: terminal
                /\ ret' = [ret EXCEPT !.outcome = "done"]
                /\ args' = args
           ELSE LET id == gather_select(c)
                    candidate == gather_fetch(signaturesCF, id)
                    overlap == args.residual \cap candidate
                IN  IF Cardinality(overlap) < args.threshold
                    THEN \* step 4: terminal
                         /\ ret' = [ret EXCEPT !.outcome = "done"]
                         /\ args' = args
                    ELSE /\ ret' = [ret EXCEPT !.matches =
                                       IF gather_is_empty(signaturesCF, id) THEN @
                                       ELSE Append(@, <<id, Cardinality(overlap)>>)]
                         /\ args' = [args EXCEPT
                                       !.residual = gather_peel(@, candidate),
                                       !.iterations = @ + 1]
    /\ UNCHANGED <<ticket, colorsCF>>
    /\ UNCHANGED <<varsDS, varsMerge, varsIndex, varsSearch>>

\* -------------------------------------------- SpecDownsample: prepare_query
\* build_template (main.rs): the builder leaves the hash function, the seed
\* and the hashes at their defaults
build_template(ksize, sc) ==
    [ksize |-> ksize, hash_function |-> "dna", max_hash |-> max_hash_for_scaled(sc),
     seed |-> 42, mins |-> {}]

\* the sketches of a signature file: any hashes of the hash space up to
\* max_hash
CandidateSketches ==
    UNION {[ksize : {k}, hash_function : {hf}, max_hash : {m}, seed : {sd},
            mins : SUBSET below_max_hash(1..HashSpaceMax, m)] :
              <<k, hf, m, sd>> \in KSizes \X HashFunctions \X MaxHashes \X Seeds}

\* the templates prepare_query is handed: those of build_template, and any
\* other sketch without hashes, prepare_query being public
Templates ==
    {build_template(k, sc) : k \in KSizes, sc \in 0..HashSpaceMax}
        \cup [ksize : KSizes, hash_function : HashFunctions, max_hash : MaxHashes,
               seed : Seeds, mins : {{}}]

\* a call of prepare_query
PrepareQuery ==
    /\ ret.outcome = "none"
    /\ ret' = [outcome |-> "returned",
               query |-> prepare_query(args.search_sig, args.template)]
    /\ UNCHANGED <<ticket, colorsCF, args>>
    /\ UNCHANGED <<varsDS, varsMerge, varsIndex, varsSearch>>

\* ---------------------------------------------------------- specifications
IdleIndex ==
    /\ binary = "none"
    /\ sketches = <<>>
    /\ threshold = f64(0)
    /\ save_paths = FALSE
    /\ pc = <<>>
    /\ processed_sigs = 0
    /\ hashesCF = <<>>
    /\ signaturesCF = <<>>
    /\ phase = "idle"

\* the values of --threshold when it is a whole number
Thresholds == {f64(t) : t \in 0..MaxHash}

\* index is called on an empty directory (create_if_missing)
InitIndex ==
    /\ sketches \in [DatasetIDs -> SUBSET Hashes]
    /\ threshold \in Thresholds
    /\ pc = [i \in DatasetIDs |-> 0]
    /\ processed_sigs = 0
    /\ hashesCF = [key \in HashKeys |-> NoCell]
    /\ signaturesCF = [key \in SigKeys |-> None]
    /\ phase = "indexing"

IdleExt ==
    /\ ticket = <<>>
    /\ colorsCF = <<>>
    /\ args = <<>>
    /\ ret = <<>>

IdleSearch ==
    /\ query_sig = <<>>
    /\ threshold_bp = 0
    /\ scaled = 0
    /\ search_threshold = 0
    /\ counter = <<>>
    /\ candidates = <<>>
    /\ matches = <<>>
    /\ outcome = "none"

InitDS == IdleDS /\ IdleMerge /\ IdleIndex /\ IdleSearch /\ IdleExt
NextDS == DSNew \/ DSExtend \/ DSUnion \/ DSUnionSelf \/ DSSwap
SpecDS == InitDS /\ [][NextDS]_vars

\* the same calls, started from any two values of the type
InitDSAll ==
    /\ dsA \in AllDatasets
    /\ dsB \in AllDatasets
    /\ dsPre = dsA
    /\ dsArg = <<>>
    /\ dsOp = "literal"
    /\ IdleMerge
    /\ IdleIndex
    /\ IdleSearch
    /\ IdleExt
SpecDSAll == InitDSAll /\ [][NextDS]_vars

InitMergeSpec == IdleDS /\ InitMerge /\ IdleIndex /\ IdleSearch /\ IdleExt
NextMerge == MergeFull \/ MergePartial \/ MergeReorder
SpecMerge == InitMergeSpec /\ [][NextMerge]_vars

\* the standalone indexer builds an index: parallel workers and the store
Init ==
    /\ IdleDS
    /\ IdleMerge
    /\ binary = "main"
    /\ save_paths = FALSE
    /\ InitIndex
    /\ IdleSearch
    /\ IdleExt
Next ==
    PickUp \/ Merge \/ BackgroundFullMerge \/ BackgroundPartialMerge \/ IndexReturn
Spec == Init /\ [][Next]_vars

\* the sketches of the siglist that is searched: no hash, the smallest hash,
\* the largest, every hash
SearchSketches == {{}, {1}, {MaxHash}, Hashes}

\* either program builds an index, its workers in parallel, and a search
\* command then queries it
InitSearch ==
    /\ IdleDS
    /\ IdleMerge
    /\ binary \in {"main", "lib"}
    /\ save_paths \in (IF binary = "lib" THEN BOOLEAN ELSE {FALSE})
    /\ InitIndex
    /\ \A i \in DatasetIDs : sketches[i] \in SearchSketches
    \* main.rs compares the threshold with the size of an empty sketch only
    \* (0 > threshold as u64), so the two ends of the range stand for it
    /\ binary = "main" => threshold \in {f64(0), f64(MaxHash)}
    \* lib.rs compares it with the size of every sketch: no threshold, the
    \* smallest and the largest
    /\ binary = "lib" => threshold \in {f64(0), f64(1), f64(MaxHash)}
    \* the paths are saved in place of the sketches in a build without threshold
    /\ save_paths => threshold = f64(0)
    /\ IdleSearch
    /\ IdleExt
NextSearch ==
    \/ PickUp
    \/ Merge
    \/ PickUpLib
    \/ MapHashesColorsLib
    \/ IndexReturn
    \/ IndexReturnLib
    \/ SearchMain
    \/ SearchLib
SpecSearch == InitSearch /\ [][NextSearch]_vars

\* either program builds an index; the workers draw their log numbers and
\* call map_hashes_colors in any order
InitIds ==
    /\ IdleDS
    /\ IdleMerge
    /\ binary \in {"main", "lib"}
    /\ save_paths = FALSE
    /\ InitIndex
    /\ threshold = f64(0)
    /\ IdleSearch
    /\ ticket = [p \in DatasetIDs |-> -1]
    /\ colorsCF = <<>>
    /\ args = <<>>
    /\ ret = <<>>
NextIds == PickUpTicket \/ CallMapHashesColors \/ CallRevindexMapHashesColors
SpecIds == InitIds /\ [][NextIds]_vars

\* the values of --threshold, whole or not, and one below zero
F64Thresholds == (-1)..(f64(MaxHash) + 1)

\* sig_save_to_db is called once, with any arguments
InitSig ==
    /\ IdleDS
    /\ IdleMerge
    /\ binary = "lib"
    /\ sketches = <<>>
    /\ threshold = f64(0)
    /\ save_paths = FALSE
    /\ pc = <<>>
    /\ processed_sigs = 0
    /\ hashesCF = [key \in HashKeys |-> NoCell]
    /\ signaturesCF \in [SigKeys -> {None, Some(sigdata_as_bytes(SignatureData_Empty))}]
    /\ phase = "indexing"
    /\ IdleSearch
    /\ ticket = <<>>
    /\ colorsCF = <<>>
    /\ args \in [search_mh : SUBSET Hashes, threshold : F64Thresholds,
                 save_paths : BOOLEAN, filename : DatasetIDs,
                 dataset_id : DatasetIDs, signatures : {signaturesCF}]
    /\ ret = "none"
NextSig == SigSaveToDb
SpecSig == InitSig /\ [][NextSig]_vars

\* check_compatible_downsample is called once, on any two sketches
InitCompat ==
    /\ IdleDS /\ IdleMerge /\ IdleIndex /\ IdleSearch
    /\ ticket = <<>>
    /\ colorsCF = <<>>
    /\ args \in [me : KmerMinHashes, other : KmerMinHashes]
    /\ ret = "none"
NextCompat == CheckCompatibleDownsample
SpecCompat == InitCompat /\ [][NextCompat]_vars

\* the signatures of a query file: up to two sketches each
Signatures == SeqsUpTo(KmerMinHashes, 2)

\* search is called on a query file of one signature, or of one signature
\* followed by a signature without sketches, or of none
InitPrepare ==
    /\ IdleDS /\ IdleMerge /\ IdleIndex /\ IdleSearch
    /\ ticket = <<>>
    /\ colorsCF = <<>>
    /\ args \in [query_sig : {<<>>} \cup {<<sig>> : sig \in Signatures}
                                \cup {<<sig, <<>> >> : sig \in Signatures},
                 template : KmerMinHashes]
    /\ ret = [outcome |-> "none"]
NextPrepare == SearchPrepare
SpecPrepare == InitPrepare /\ [][NextPrepare]_vars

\* a color table holds, under the color of a set, that set or nothing, and
\* the tables of the model hold no color, one color or every color; update
\* is called with any color of the model and any list of new ids, and
\* compute_color on the sets built from any two lists
InitColors ==
    /\ IdleDS /\ IdleMerge /\ IdleIndex /\ IdleSearch
    /\ ticket = <<>>
    /\ colorsCF \in {[k \in ColorKeys |->
                         IF \E S \in held : k = write_u64_le(compute_color(Ascending(S)))
                         THEN Some(main_as_bytes(
                                  CHOOSE S \in held :
                                      k = write_u64_le(compute_color(Ascending(S)))))
                         ELSE None] :
                        held \in {{}} \cup {{S} : S \in SUBSET DatasetIDs}
                                      \cup {SUBSET DatasetIDs}}
    /\ \/ /\ args \in [call : {"update"},
                       current_color : {None} \cup {Some(c) : c \in ColorValues},
                       new_idxs : Lists]
       \/ /\ args \in [call : {"compute_color"}, a : Lists, b : Lists]
    /\ ret = [outcome |-> "none"]
NextColors == ColorsUpdate \/ ComputeColor
SpecColors == InitColors /\ [][NextColors]_vars

\* the values built from any two lists of ids, in either program
InitSer ==
    /\ IdleDS /\ IdleMerge /\ IdleIndex /\ IdleSearch
    /\ ticket = <<>>
    /\ colorsCF = <<>>
    /\ \/ args \in [program : {"lib"}, build : {"new", "extend", "Many"},
                    a : Lists, b : Lists]
       \/ args \in [program : {"main"}, build : {"new"}, a : Lists, b : Lists]
    /\ ret = [outcome |-> "none"]
NextSer == Serialize
SpecSer == InitSer /\ [][NextSer]_vars

\* the cells of an index that has been built: no value, a merged value, or
\* operands that no compaction has merged yet
FrameCells(program) ==
    IF program = "main"
    THEN {NoCell,
          [base |-> Some(main_as_bytes(main_new(<<0>>))), ops |-> <<>>],
          [base |-> None,
           ops |-> <<main_as_bytes(main_new(<<0>>)), main_as_bytes(main_new(<<1>>))>>]}
    ELSE IF program = "lib"
    THEN {NoCell,
          [base |-> Some(as_bytes(Unique(0))), ops |-> <<>>],
          [base |-> None, ops |-> <<as_bytes(Unique(0)), as_bytes(Unique(1))>>]}
    ELSE {NoCell,
          [base |-> Some(write_u64_le(compute_color(<<0>>))), ops |-> <<>>]}

\* search and check are called on an index that has been built
InitFrame ==
    /\ IdleDS /\ IdleMerge /\ IdleSearch
    /\ binary \in {"main", "lib", "lib_colors"}
    /\ sketches = [i \in DatasetIDs |-> {}]
    /\ threshold = f64(0)
    /\ save_paths = FALSE
    /\ pc = [i \in DatasetIDs |-> 1]
    /\ processed_sigs = MaxSigs
    /\ hashesCF \in [HashKeys -> FrameCells(binary)]
    /\ signaturesCF \in
          IF binary = "main" THEN {[key \in SigKeys |-> None]}
          ELSE [SigKeys -> {Some(sigdata_as_bytes(SignatureData_Empty)),
                            Some(sigdata_as_bytes(
                                SignatureData_Internal([name |-> 0, mh |-> {1}])))}]
    /\ colorsCF \in
          IF binary = "lib_colors"
          THEN {[key \in ColorKeys |->
                    IF key = write_u64_le(compute_color(<<0>>))
                    THEN [base |-> None, ops |-> <<as_bytes(Unique(0))>>]
                    ELSE NoCell]}
          ELSE {<<>>}
    /\ phase = "indexed"
    /\ ticket = <<>>
    /\ args = <<>>
    /\ ret = [outcome |-> "none"]
NextFrame == SearchMain \/ SearchLib \/ CheckMain \/ CheckLib
SpecFrame == InitFrame /\ [][NextFrame]_vars

\* index is called with colors on an empty directory
InitColorIndex ==
    /\ IdleDS /\ IdleMerge /\ IdleSearch
    /\ binary = "lib_colors"
    /\ save_paths \in BOOLEAN
    /\ InitIndex
    /\ colorsCF = [key \in ColorKeys |-> NoCell]
    /\ ticket = <<>>
    /\ args = <<>>
    /\ ret = <<>>
NextColorIndex == IndexSignatureColors \/ IndexReturnColors
SpecColorIndex == InitColorIndex /\ [][NextColorIndex]_vars

\* index is called twice on the same siglist, with colors on one empty
\* directory and without on another
InitBoth ==
    /\ IdleDS /\ IdleMerge /\ IdleSearch
    /\ binary = "lib_colors"
    /\ save_paths = FALSE
    /\ InitIndex
    /\ colorsCF = [key \in ColorKeys |-> NoCell]
    /\ ticket = <<>>
    /\ args = [hashes |-> [key \in HashKeys |-> NoCell],
               signatures |-> [key \in SigKeys |-> None],
               pc |-> [i \in DatasetIDs |-> 0], phase |-> "indexing"]
    /\ ret = [outcome |-> "none"]
NextBoth ==
    \/ IndexSignatureColors
    \/ IndexReturnColors
    \/ PlainIndexSignature
    \/ PlainIndexReturn
    \/ CounterForQueryBoth
SpecBoth == InitBoth /\ [][NextBoth]_vars

\* index of lib.rs builds a plain index from any siglist in an empty
\* directory, its workers in parallel; gather is then called on it
InitGather ==
    /\ IdleDS /\ IdleMerge /\ IdleSearch
    /\ binary = "lib"
    /\ sketches \in [DatasetIDs -> SUBSET Hashes]
    /\ threshold \in {f64(0), f64(1), f64(MaxHash)}
    /\ save_paths = FALSE
    /\ pc = [i \in DatasetIDs |-> 0]
    /\ processed_sigs = 0
    /\ hashesCF = [key \in HashKeys |-> NoCell]
    /\ signaturesCF = [key \in SigKeys |-> None]
    /\ phase = "indexing"
    /\ ticket = <<>>
    /\ colorsCF = <<>>
    /\ args = [query |-> {}, threshold |-> 0, residual |-> {}, iterations |-> 0]
    /\ ret = [outcome |-> "none", matches |-> <<>>]
NextGather ==
    \/ PickUpLib
    \/ MapHashesColorsLib
    \/ IndexReturnLib
    \/ GatherStart
    \/ GatherIterate
SpecGather == InitGather /\ [][NextGather]_vars

\* prepare_query is called on a signature of up to two sketches and any
\* template
InitDownsample ==
    /\ IdleDS /\ IdleMerge /\ IdleIndex /\ IdleSearch
    /\ ticket = <<>>
    /\ colorsCF = <<>>
    /\ args \in [search_sig : SeqsUpTo(CandidateSketches, 2),
                 template : Templates]
    /\ ret = [outcome |-> "none"]
NextDownsample == PrepareQuery
SpecDownsample == InitDownsample /\ [][NextDownsample]_vars

\* the standalone indexer builds an index with a threshold that truncates to
\* 0, as the default of --threshold (0.85) does
InitGrow == Init /\ threshold = f64(0)
NextGrow ==
    PickUp \/ Merge \/ BackgroundFullMerge \/ BackgroundPartialMerge \/ IndexReturn
SpecGrow == InitGrow /\ [][NextGrow]_vars

\* the standalone indexer builds an index with any value of --threshold,
\* its workers merge by merge in any interleaving
InitThreshold ==
    /\ IdleDS
    /\ IdleMerge
    /\ binary = "main"
    /\ save_paths = FALSE
    /\ sketches \in [DatasetIDs -> SUBSET Hashes]
    /\ threshold \in F64Thresholds
    /\ pc = [i \in DatasetIDs |-> 0]
    /\ processed_sigs = 0
    /\ hashesCF = [key \in HashKeys |-> NoCell]
    /\ signaturesCF = [key \in SigKeys |-> None]
    /\ phase = "indexing"
    /\ IdleSearch
    /\ IdleExt
NextThreshold == PickUp \/ Merge \/ IndexReturn
SpecThreshold == InitThreshold /\ [][NextThreshold]_vars


\* ------------------------------------------------------------------ claims
\* the datasets whose sketch holds hash h
Postings(h) == {i \in DatasetIDs : h \in sketches[i]}

StoreQuiet == \A key \in HashKeys : hashesCF[key].ops = <<>>

\* C1: once every worker has finished and the store has applied every pending
\* merge, hashes[h] holds exactly the datasets whose sketch contains h, and a
\* hash that is in no sketch has no entry; whatever the interleaving of the
\* workers' merges and the grouping of operands the store chose.
C1_PlainIndexBuild ==
    (AllDone /\ StoreQuiet) =>
        \A h \in Hashes :
            LET cell == hashesCF[write_u64_le(h)]
            IN  IF Postings(h) = {}
                THEN cell.base = None
                ELSE /\ cell.base # None
                     /\ main_from_slice(cell.base[1]) = Postings(h)

\* two workers merged into one key, the store merged, and one hash has no entry
C1_Witness ==
    /\ phase = "indexing"
    /\ AllDone
    /\ StoreQuiet
    /\ \E h \in Hashes : Cardinality(Postings(h)) >= 2
    /\ \E h \in Hashes : Postings(h) = {}

\* what a reader of the key gets, as a value of each program's Datasets
MainRead(base, ops) ==
    LET r == StoreGet("main", [base |-> base, ops |-> ops])
    IN  [n \in 1..Len(r) |-> main_from_slice(r[n])]
LibRead(base, ops) ==
    LET r == StoreGet("lib", [base |-> base, ops |-> ops])
    IN  [n \in 1..Len(r) |-> from_slice(r[n])]

\* C2: the merge operator is associative and commutative: however the store
\* has reordered and grouped the operands of a key so far (partial merges,
\* full merges whose result is the existing value of the next one), the key
\* reads as the same Datasets as one merge of the operands in the order issued.
C2_MergeAssocCommut ==
    /\ MainRead(mBase, mPending)
         = MainRead(MainBytesOf(mExisting), MainBytesOf(mOps))
    /\ LibRead(lBase, lPending)
         = LibRead(LibBytesOf(mExisting), LibBytesOf(mOps))

\* the last merge took the result of an earlier merge as its existing value
C2_Witness ==
    /\ mCall # None
    /\ mPending = <<>>
    /\ Len(mOps) >= 2
    /\ mCall[1].existing_val # None
    /\ mCall[1].existing_val # MainBytesOf(mExisting)
    /\ Cardinality(main_from_slice(mCall[1].result)) >= 2

\* C3: merge_datasets(existing, operands) returns the serialization of the
\* union of the existing value (the empty set when there is none) and of every
\* operand: an id is in the result iff it is in the existing value or in at
\* least one operand.
C3_MergeIsUnion ==
    mCall # None =>
        LET c == mCall[1]
        IN  /\ \A id \in DatasetIDs :
                  id \in main_from_slice(c.result)
                  <=> \/ c.existing_val # None /\ id \in main_from_slice(c.existing_val[1])
                      \/ \E n \in 1..Len(c.operands) : id \in main_from_slice(c.operands[n])
            /\ main_from_slice(c.result) \subseteq DatasetIDs
            /\ c.result = main_as_bytes(main_from_slice(c.result))

\* a call with an existing value and two operands, each side bringing an id
C3_Witness ==
    /\ mCall # None
    /\ mCall[1].existing_val # None
    /\ Len(mCall[1].operands) >= 2
    /\ \E id \in main_from_slice(mCall[1].existing_val[1]) :
          \A n \in 1..Len(mCall[1].operands) : id \notin main_from_slice(mCall[1].operands[n])
    /\ \E n \in 1..Len(mCall[1].operands) :
          ~(main_from_slice(mCall[1].operands[n])
                \subseteq main_from_slice(mCall[1].existing_val[1]))

\* C8: after a.union(b), a contains x iff a or b contained x before the call,
\* and len() is the number of distinct ids contained.
C8_UnionContains ==
    dsOp = "union" =>
        /\ \A x \in DatasetIDs :
              contains(dsA, x) <=> (contains(dsPre, x) \/ contains(dsArg, x))
        /\ len(dsA) = Cardinality({x \in DatasetIDs : contains(dsA, x)})

\* a Unique united with a Many that brings another id
C8_Witness ==
    /\ dsOp = "union"
    /\ dsPre.tag = "Unique"
    /\ dsArg.tag = "Many"
    /\ \E x \in DatasetIDs : contains(dsArg, x) /\ ~contains(dsPre, x)
    /\ len(dsA) >= 2

\* the minimal-variant form
MinimalVariant(d) ==
    /\ d.tag = "Empty" <=> len(d) = 0
    /\ d.tag = "Unique" <=> len(d) = 1
    /\ d.tag = "Many" => len(d) >= 2

\* C9: every Datasets reachable through new, extend and union is in
\* minimal-variant form: Empty iff 0 members, Unique iff 1 member, Many only
\* with at least 2 distinct members.
C9_MinimalVariant == MinimalVariant(dsA) /\ MinimalVariant(dsB)

\* C10: union is idempotent: for every nonempty a, a.union(a) leaves a equal
\* (same variant, same members) to its value before the call.
C10_UnionIdempotent ==
    (dsOp = "union" /\ dsArg = dsPre /\ dsPre # Empty) => dsA = dsPre

\* a Unique and a Many have been united with themselves
C10_Witness ==
    /\ dsOp = "union"
    /\ dsArg = dsPre
    /\ dsPre.tag = "Many"
    /\ len(dsPre) >= 2
    /\ dsB.tag = "Unique"

\* the sketch search queries with: the last matching sketch of the query file
Query == query_sig[Len(query_sig)]

\* whether key h has an entry in hashes, and the ids the entry holds, whether
\* in the value written or in an operand still pending (format of main.rs)
HasEntry(h) ==
    LET cell == hashesCF[write_u64_le(h)]
    IN  cell.base # None \/ cell.ops # <<>>
Held(h) ==
    LET cell == hashesCF[write_u64_le(h)]
    IN  (IF cell.base = None THEN {} ELSE Range(cell.base[1]))
        \cup UNION {Range(cell.ops[n]) : n \in 1..Len(cell.ops)}

\* C4: counter_for_query returns a counter in which the count of every
\* dataset id is the number of query hashes h such that hashes[h] exists and
\* contains the id; hashes with no entry contribute nothing and an id in no
\* looked-up posting does not appear.
C4_CounterForQuery ==
    (binary = "main" /\ outcome = "ok") =>
        /\ DOMAIN counter \subseteq DatasetIDs
        /\ \A id \in DatasetIDs :
              LET n == Cardinality({h \in Query : HasEntry(h) /\ id \in Held(h)})
              IN  IF n = 0
                  THEN id \notin DOMAIN counter
                  ELSE id \in DOMAIN counter /\ counter[id] = n

\* one dataset shares two hashes with the query, another only one of them
C4_Witness ==
    /\ binary = "main"
    /\ outcome = "ok"
    /\ \E id \in DOMAIN counter : counter[id] >= 2
    /\ \E id \in DOMAIN counter : counter[id] = 1

\* the number of hashes dataset i shares with the query
Shared(i) == Cardinality(sketches[i] \cap Query)

\* the datasets search has emitted
Emitted == Range(matches)

\* C5: search emits exactly the indexed datasets whose counter value (the
\* number of hashes shared with the query) is at least threshold_bp / scaled:
\* every dataset with such a count is emitted and no dataset with a smaller
\* count is.
C5_SearchThreshold ==
    (outcome # "none" /\ query_sig # <<>>) =>
        Emitted = {i \in DatasetIDs : Shared(i) >= threshold_bp \div scaled}

\* C6: for every indexed sketch s, whatever its position, the build
\* threshold and the other datasets, search with query s and
\* threshold_bp = 0 after index has completed has the dataset of s among the
\* matches.
C6_SelfMatch ==
    (outcome # "none" /\ query_sig # <<>> /\ threshold_bp = 0) =>
        \A i \in DatasetIDs : sketches[i] = Query => i \in Emitted

\* C7: the candidates search walks come by descending count, ties by
\* ascending dataset id: of two datasets with equal counts the smaller id is
\* always emitted first.
C7_TiesAscendingId ==
    outcome = "ok" =>
        \A m, n \in 1..Len(candidates) :
            m < n =>
                \/ candidates[m][2] > candidates[n][2]
                \/ candidates[m][2] = candidates[n][2]
                   /\ candidates[m][1] < candidates[n][1]

\* the ids key h of hashes holds, in the value written or in a pending
\* operand, in the format of the program that runs
HeldIds(h) ==
    LET cell == hashesCF[write_u64_le(h)]
        ids(bytes) == IF binary = "main" THEN main_from_slice(bytes)
                      ELSE Range(into_iter(from_slice(bytes)))
    IN  (IF cell.base = None THEN {} ELSE ids(cell.base[1]))
        \cup UNION {ids(cell.ops[n]) : n \in 1..Len(cell.ops)}

\* C11: the id under which the postings of a signature file are written is
\* the zero-based position of the file in the siglist, whatever the order in
\* which the workers pick up and finish the files: once the worker of
\* position p has run, p is held by every hash of the file's sketch, and no
\* hash holds an id whose file does not have the hash.
C11_IdIsPosition ==
    \A h \in Hashes :
        /\ \A p \in DatasetIDs : (Done(p) /\ pc[p] # 0 /\ h \in sketches[p]) => p \in HeldIds(h)
        /\ \A id \in HeldIds(h) :
              id \in DatasetIDs /\ h \in sketches[id] /\ pc[id] # 0

\* the last entry of the siglist was picked up first and its postings are
\* written, next to those of an entry with another sketch
C11_Witness ==
    /\ ticket # <<>>
    /\ ticket[MaxSigs - 1] = 0
    /\ pc[MaxSigs - 1] # 0
    /\ sketches[MaxSigs - 1] # {}
    /\ \E p \in DatasetIDs :
          /\ sketches[p] \notin {{}, sketches[MaxSigs - 1]}
          /\ pc[p] # 0

\* C12: sig_save_to_db writes signatures[dataset_id] = Empty when the sketch
\* is empty or its size is below the build threshold, otherwise External(path)
\* when save_paths is set and Internal(sketch) when it is not; it writes the
\* key of dataset_id (8 bytes, little-endian) in signatures and no other key.
C12_SigSaveToDb ==
    ret = "returned" =>
        LET size == Cardinality(args.search_mh)
            \* the threshold is held in halves
            below == 2 * size < args.threshold
            blob == IF args.search_mh = {} \/ below
                    THEN SignatureData_Empty
                    ELSE IF args.save_paths
                    THEN SignatureData_External(args.filename)
                    ELSE SignatureData_Internal(
                             [name |-> args.filename, mh |-> args.search_mh])
            key == write_u64_le(args.dataset_id)
        IN  /\ Len(key) = 8
            /\ signaturesCF[key] # None
            /\ sigdata_from_slice(signaturesCF[key][1]) = blob
            /\ \A other \in SigKeys \ {key} :
                  signaturesCF[other] = args.signatures[other]
            /\ \A h \in HashKeys : hashesCF[h] = NoCell

\* C13: check_compatible_downsample(source, target) returns Ok iff the two
\* have equal ksize, equal hash_function, equal seed and source.max_hash >=
\* target.max_hash; otherwise the error of the first failing check in the
\* order MismatchKSizes, MismatchDNAProt, MismatchScaled, MismatchSeed.
C13_CompatibleDownsample ==
    ret # "none" =>
        LET me == args.me
            other == args.other
            failing == <<me.ksize # other.ksize,
                         me.hash_function # other.hash_function,
                         ~(me.max_hash >= other.max_hash),
                         me.seed # other.seed>>
            errors == <<"MismatchKSizes", "MismatchDNAProt", "MismatchScaled",
                        "MismatchSeed">>
        IN  /\ ret = "Ok" <=> \A n \in 1..4 : ~failing[n]
            /\ \A n \in 1..4 :
                  (failing[n] /\ \A m \in 1..(n - 1) : ~failing[m]) => ret = errors[n]

\* a source that is both too coarse and of another seed: the error is
\* MismatchScaled
C13_Witness ==
    /\ ret = "MismatchScaled"
    /\ args.me.seed # args.other.seed
    /\ args.me.max_hash < args.other.max_hash

\* no sketch of the query file has the template's parameters and none can be
\* downsampled to it
NoneQualifies ==
    \A n \in 1..Len(args.query_sig) : \A k \in 1..Len(args.query_sig[n]) :
        LET mh == args.query_sig[n][k]
            t == args.template
        IN  ~(/\ mh.ksize = t.ksize
              /\ mh.hash_function = t.hash_function
              /\ mh.seed = t.seed
              /\ mh.max_hash >= t.max_hash)

MismatchErrors ==
    {"MismatchScaled", "MismatchKSizes", "MismatchDNAProt", "MismatchSeed"}

\* C14, as stated: when no sketch of the query signature matches the template
\* and none is downsample-compatible, query preparation fails with a Mismatch
\* error surfaced to the caller and search aborts with an error outcome,
\* without opening or reading the index.
C14_MismatchSurfaced ==
    (ret.outcome # "none" /\ NoneQualifies) =>
        /\ ret.outcome = "error"
        /\ ret.message \in MismatchErrors
        /\ ~ret.opened

\* C14, amended: when no sketch of the query signature matches the template
\* and none is downsample-compatible, prepare_query returns None (the error
\* of check_compatible_downsample is dropped) and search panics with
\* "Couldn't find a compatible MinHash", without opening or reading the index.
C14_NoQueryPanics ==
    (ret.outcome # "none" /\ NoneQualifies) =>
        /\ \A n \in 1..Len(args.query_sig) :
              prepare_query(args.query_sig[n], args.template) = None
        /\ ret.outcome = "panic"
        /\ ret.message = "Couldn't find a compatible MinHash"
        /\ ~ret.opened

\* a signature of two sketches, one of another ksize and one too coarse
C14_Witness ==
    /\ ret.outcome # "none"
    /\ NoneQualifies
    /\ Len(args.query_sig) >= 1
    /\ Len(args.query_sig[1]) = 2
    /\ args.query_sig[1][1].ksize # args.template.ksize
    /\ args.query_sig[1][2].ksize = args.template.ksize
    /\ args.query_sig[1][2].max_hash < args.template.max_hash
    /\ ret.outcome = "panic"

\* the color that stands for a set of ids
ColorOf(S) == xxh3(Ascending(S))

\* C15: when the current color c_old is stored with the set S_old and the new
\* ids D arrive, Colors::update returns a color representing S_old \cup D, and
\* after the call that color is in the color table with the value
\* S_old \cup D; when D is a subset of S_old the returned color is c_old.
C15_ColorWidening ==
    (/\ ret.outcome # "none"
     /\ args.call = "update"
     /\ args.current_color # None
     /\ colorsCF[write_u64_le(args.current_color[1])] # None) =>
        LET S_old == main_from_slice(colorsCF[write_u64_le(args.current_color[1])][1])
            D == Range(args.new_idxs)
        IN  /\ ret.outcome = "Ok"
            /\ ret.color = Some(ColorOf(S_old \cup D))
            /\ colorsCF[write_u64_le(ret.color[1])] # None
            /\ main_from_slice(colorsCF[write_u64_le(ret.color[1])][1]) = S_old \cup D
            /\ D \subseteq S_old => ret.color = args.current_color

\* C16: two DatasetSets with the same members, built by any order of
\* insertion, get equal colors from compute_color: the color is the digest
\* of the ascending list of the members.
C16_ColorOfMembers ==
    (ret.outcome # "none" /\ args.call = "compute_color") =>
        /\ main_new(args.a) = main_new(args.b) => ret.a = ret.b
        /\ ret.a = xxh3(Ascending(main_new(args.a)))
        /\ ret.b = xxh3(Ascending(main_new(args.b)))

\* the same two members inserted in two orders and iterated in two orders
C16_Witness ==
    /\ ret.outcome # "none"
    /\ args.call = "compute_color"
    /\ args.a # args.b
    /\ main_new(args.a) = main_new(args.b)
    /\ ret.iter_a # ret.iter_b
    /\ ret.a = ret.b

\* the members of a value of either program
MembersOf(program, d) == IF program = "main" THEN d ELSE Range(into_iter(d))

\* the part of the serialization that lists the members
MemberBytes(program, bytes) ==
    IF program = "main" THEN bytes
    ELSE IF bytes[1] = 2 THEN SubSeq(bytes, 3, Len(bytes)) ELSE Tail(bytes)

\* C17: two DatasetSets with the same members serialize to identical bytes,
\* however the members were inserted, and a multi-member set is serialized as
\* its members in ascending order.
C17_CanonicalBytes ==
    ret.outcome # "none" =>
        /\ MembersOf(args.program, ret.a) = MembersOf(args.program, ret.b)
              => ret.bytes_a = ret.bytes_b
        /\ Cardinality(MembersOf(args.program, ret.a)) >= 2
              => MemberBytes(args.program, ret.bytes_a)
                     = Ascending(MembersOf(args.program, ret.a))

\* C19: search and check do not change the store: when either of them
\* returns, with success or with an error, every column family (hashes,
\* colors, signatures) holds the keys and values it held before the call.
C19_QueriesKeepStore ==
    [][(outcome' # outcome \/ ret' # ret)
          => UNCHANGED <<hashesCF, signaturesCF, colorsCF>>]_vars

\* search and check have both returned, on a store that holds operands no
\* compaction has merged
C19_Witness ==
    /\ phase = "indexed"
    /\ outcome \in {"ok", "panic"}
    /\ ret.outcome \in {"ok", "panic"}
    /\ \E key \in HashKeys : hashesCF[key].ops # <<>>

\* the DatasetSet of the ids whose sketch holds the hash
DatasetSetOf(h) == new(Ascending({id \in DatasetIDs : h \in sketches[id]}))

\* C20: in a color-index build the compaction pass runs after all datasets
\* have been indexed, and once it has finished every value in hashes is a
\* color c, every color referenced from hashes is present in colors, and
\* colors[c] is the DatasetSet {id : h is in sketch(id)} of the hash h that
\* references it.
C20_ColorIndexBuild ==
    (binary = "lib_colors" /\ phase = "indexed") =>
        /\ \A i \in DatasetIDs : Done(i)
        /\ \A h \in Hashes :
              LET value == StoreGet("lib", hashesCF[write_u64_le(h)])
              IN  IF \A id \in DatasetIDs : h \notin sketches[id]
                  THEN value = None
                  ELSE /\ value # None
                       /\ value[1] \in ColorKeys
                       /\ StoreGet("lib", colorsCF[value[1]]) # None
                       /\ from_slice(StoreGet("lib", colorsCF[value[1]])[1])
                              = DatasetSetOf(h)

\* a build in which one hash is in both sketches and another in one only
C20_Witness ==
    /\ binary = "lib_colors"
    /\ phase = "indexed"
    /\ \E h, g \in Hashes :
          /\ \A id \in DatasetIDs : h \in sketches[id]
          /\ Cardinality({id \in DatasetIDs : g \in sketches[id]}) = 1
          /\ StoreGet("lib", hashesCF[write_u64_le(h)])
                 # StoreGet("lib", hashesCF[write_u64_le(g)])

\* C21: a plain index and a color index built from the same input list return
\* identical counters from counter_for_query for every query sketch.
C21_SameCounters ==
    ret.outcome = "ok" => ret.plain = ret.color

\* a query of two hashes, one of them in both sketches: the counters hold
\* both datasets
C21_Witness ==
    /\ ret.outcome = "ok"
    /\ Cardinality(ret.query) >= 2
    /\ DOMAIN ret.color = DatasetIDs
    /\ \E h \in ret.query : \A id \in DatasetIDs : h \in sketches[id]
    /\ \E id \in DatasetIDs : ret.color[id] >= 2

\* the datasets gather has emitted
GatherEmitted == {ret.matches[n][1] : n \in 1..Len(ret.matches)}

\* C22, as stated: gather terminates for every query, corpus and threshold:
\* every iteration that does not reach the terminal state strictly shrinks
\* the residual, a selected dataset whose blob is Empty is not emitted, and
\* the number of iterations times the threshold is at most the size of the
\* original query.
C22_GatherTerminates ==
    /\ Cardinality(args.residual) + args.iterations <= Cardinality(args.query)
    /\ args.iterations * args.threshold <= Cardinality(args.query)
    /\ \A id \in GatherEmitted : ~gather_is_empty(signaturesCF, id)

\* the candidate has the parameters of the template
MatchesTemplate(c, t) ==
    /\ c.ksize = t.ksize /\ c.hash_function = t.hash_function
    /\ c.seed = t.seed /\ c.max_hash = t.max_hash

\* the candidate is downsample-compatible with the template
DownsampleCompatible(c, t) ==
    /\ c.ksize = t.ksize /\ c.hash_function = t.hash_function
    /\ c.seed = t.seed /\ c.max_hash >= t.max_hash

\* C23: when a candidate sketch does not match the template's parameters but
\* is downsample-compatible with it, prepare_query returns a sketch whose
\* max_hash is the template's and whose hashes are exactly the candidate's
\* hashes that are <= the template's max_hash; when a candidate already
\* matches the template it is returned unchanged.
C23_Downsampled ==
    ret.outcome = "returned" =>
        LET sig == args.search_sig
            t == args.template
            matching == {n \in 1..Len(sig) : MatchesTemplate(sig[n], t)}
            compatible == {n \in 1..Len(sig) : DownsampleCompatible(sig[n], t)}
        IN  /\ matching # {} =>
                  \E n \in matching : ret.query = Some(sig[n])
            /\ (matching = {} /\ compatible # {}) =>
                  \E n \in compatible :
                      ret.query = Some([sig[n] EXCEPT
                                          !.max_hash = t.max_hash,
                                          !.mins = {h \in @ : h <= t.max_hash}])

\* the set a reader of the key gets, and the set its stored value holds
PostingRead(cell) == StoreGet("main", cell)
PostingGrows(before, after) ==
    before # None =>
        /\ after # None
        /\ main_from_slice(before[1]) \subseteq main_from_slice(after[1])

\* C24: during a build the posting set of every hash only grows: at every
\* step of any interleaving of the workers' merges and the store's merges,
\* once hashes[h] exists it is never deleted, and the set it holds after the
\* step is a superset of the set it held before.
C24_PostingsOnlyGrow ==
    [][\A key \in HashKeys :
          /\ PostingGrows(PostingRead(hashesCF[key]), PostingRead(hashesCF'[key]))
          /\ PostingGrows(hashesCF[key].base, hashesCF'[key].base)]_vars

\* the store has folded a second dataset into the stored set of a hash, and
\* a merge on a hash that has a stored set is pending
C24_Witness ==
    /\ phase = "indexing"
    /\ \E key \in HashKeys :
          /\ hashesCF[key].base # None
          /\ Cardinality(main_from_slice(hashesCF[key].base[1])) >= 2
    /\ \E key \in HashKeys :
          /\ hashesCF[key].base # None
          /\ hashesCF[key].ops # <<>>

\* the ids stored under a key: in its value and in its pending operands
StoredIds(cell) ==
    (IF cell.base = None THEN {} ELSE main_from_slice(cell.base[1]))
        \cup UNION {main_from_slice(cell.ops[n]) : n \in 1..Len(cell.ops)}

\* C25: every dataset id stored in any posting of an index that main.rs
\* built from a siglist of n paths is smaller than n; hence a search that is
\* given the same siglist never reads sig_files[dataset_id] out of bounds,
\* for any query and threshold.
C25_IdsInBounds ==
    binary = "main" =>
        /\ \A key \in HashKeys : \A id \in StoredIds(hashesCF[key]) :
              id < Len(sig_files)
        /\ (outcome # "none" /\ query_sig # <<>>) =>
              /\ \A n \in 1..Len(candidates) : candidates[n][1] < Len(sig_files)
              /\ ~main_matches_panics(candidates, search_threshold, sig_files)
              /\ outcome # "panic"

\* a search without threshold whose query hits the last entry of the siglist
C25_Witness ==
    /\ binary = "main"
    /\ outcome = "ok"
    /\ search_threshold = write_u64_le(0)
    /\ Len(matches) = MaxSigs
    /\ \E n \in 1..Len(matches) : matches[n] = sig_files[MaxSigs]

\* the siglist entries map_hashes_colors has returned for
Processed == {i \in DatasetIDs : Done(i)}

\* the entries whose call of map_hashes_colors is past the turn of hash h in
\* the loop over the sketch
PastTurn(h) ==
    {i \in DatasetIDs :
        h \in sketches[i] /\ pc[i] > Cardinality({g \in sketches[i] : g <= h})}

\* C26: in the standalone indexer the build threshold never suppresses
\* postings: map_hashes_colors writes a merge for every hash of a dataset's
\* sketch iff the sketch is non-empty, whatever the value of threshold and the
\* size of the sketch.
C26_ThresholdIgnored ==
    \A h \in Hashes :
        LET cell == hashesCF[write_u64_le(h)]
            writers == PastTurn(h)
        IN  /\ {i \in Processed : h \in sketches[i]} \subseteq writers
            /\ Len(cell.ops) = Cardinality(writers)
            /\ \A i \in writers :
                  \E n \in 1..Len(cell.ops) : main_from_slice(cell.ops[n]) = {i}
            /\ cell.base = None

\* a threshold above the size of a non-empty sketch that has been indexed,
\* and an empty sketch that has been indexed
C26_Witness ==
    /\ \E i \in Processed :
          /\ sketches[i] # {}
          /\ Cardinality(sketches[i]) < as_u64(threshold)
          /\ \A h \in sketches[i] : hashesCF[write_u64_le(h)].ops # <<>>
    /\ \E i \in Processed : sketches[i] = {}

====
